---- MODULE Spec2Model ----
(***************************************************************************)
(* Epsilon firmware updater: the production updater                       *)
(* (update_firmware_v2.1.py, class ProductionFirmwareUpdater) driving a    *)
(* CANopen device over the SDO protocol, together with the CAN bus and     *)
(* the device it talks to.                                                 *)
(*                                                                         *)
(* The updater is one sequential thread: pc is its position, stack the     *)
(* return addresses of the calls in progress.  Everything between two      *)
(* blocking calls (bus.recv, time.sleep) is one step.  The environment     *)
(* (the device answering requests, other traffic on the bus, the caller    *)
(* setting the cancellation token) interleaves with these steps.           *)
(*                                                                         *)
(* Time is abstract: bus.recv(timeout) returns the oldest queued frame if  *)
(* there is one and None otherwise (the reply is then late or missing);    *)
(* the poll loop of _change_program runs at least once and at most         *)
(* MaxPolls times before its deadline passes.                              *)
(***************************************************************************)
EXTENDS Integers, Sequences, FiniteSets, TLC

VARIABLES
    node_id,            \* self.node_id
    file,               \* content of firmware_path (NoFile: cannot be read)
    is_bootloader_file, \* argument of program()
    entry,              \* the operation under analysis
    impl,               \* whose download runs: "v2.1" or "simple" (update_firmware.py)
    cancelled,          \* CancellationToken.cancelled
    pc,                 \* position of the updater
    stack,              \* return addresses of the calls in progress
    buffer,             \* program(): buffer; download: data
    flashed,            \* self.flashed
    in_bootloader,      \* self.in_bootloader
    exc,                \* exception propagating through program()'s finally
    result,             \* what program() returned
    target_program,     \* _change_program: target_program
    attempt,            \* _change_program: attempt
    vattempt,           \* _verify_firmware: attempt
    current_program,    \* value returned by the last _get_program
    ret,                \* value returned by the last bool-valued call
    offset,             \* download: offset
    toggle,             \* download: toggle
    segment_num,        \* download: segment_num
    response,           \* the frame the last exchange took as its response
    rxq,                \* frames queued in the host's receive queue
    pending,            \* requests on the bus the device has not handled yet
    devMode,            \* the device's program: 0 bootloader, 1 application
    noise,              \* unrelated frames put on the bus so far
    sent,               \* every frame the updater sent, in order
    notes,              \* every (progress, state) passed to _notify, in order
    fault,              \* something deviated from the fault-free scenario
    appSeen,            \* a _get_program returned 1 after in_bootloader was set
    why,                \* why the last download returned; "mode_cancelled" once the token stopped a mode change
    hex_base_address,   \* _bin_to_intel_hex: base_address
    sink,               \* program: callback, "ok" returns and "throws" raises every time
    parser              \* parse_intel_hex: its locals and the text not read yet

vars == <<node_id, file, is_bootloader_file, entry, impl, cancelled, pc, stack, buffer,
          flashed, in_bootloader, exc, result, target_program, attempt, vattempt,
          current_program, ret, offset, toggle, segment_num, response, rxq,
          pending, devMode, noise, sent, notes, fault, appSeen, why, hex_base_address, sink,
          parser>>

cfgVars == <<node_id, file, is_bootloader_file, entry, impl, hex_base_address, sink>>
progVars == <<buffer, flashed, in_bootloader, exc, result>>
pollVars == <<target_program, attempt, vattempt>>
dlVars == <<offset, toggle, segment_num, why>>
busVars == <<rxq, pending, sent>>
devVars == <<devMode, noise>>

----------------------------------------------------------------------------
(* Bounds of the model *)

\* poll iterations of _change_program before its deadline has passed
MaxPolls == 2
\* heartbeat and other-node frames that appear on the bus during a run
MaxNoise == 1
\* requests the device can hold unanswered (older ones are lost)
MaxPending == 2
\* longest payload given to a stand-alone download
MaxLen == 15

----------------------------------------------------------------------------
(* Python values *)

None == -1
NoFrame == [id |-> None, data |-> <<>>]
NoFile == <<None>>
NoBuffer == <<None>>

RECURSIVE BitAnd(_, _)
BitAnd(a, b) ==
    IF a = 0 \/ b = 0 THEN 0
    ELSE (a % 2) * (b % 2) + 2 * BitAnd(a \div 2, b \div 2)

RECURSIVE BitOr(_, _)
BitOr(a, b) ==
    IF a = 0 THEN b
    ELSE IF b = 0 THEN a
    ELSE (IF a % 2 = 1 \/ b % 2 = 1 THEN 1 ELSE 0) + 2 * BitOr(a \div 2, b \div 2)

RECURSIVE Pow2(_)
Pow2(n) == IF n = 0 THEN 1 ELSE 2 * Pow2(n - 1)

ShiftLeft(a, n) == a * Pow2(n)
ShiftRight(a, n) == a \div Pow2(n)

\* struct.pack('<I', v)
PackLE32(v) ==
    << v % 256, (v \div 256) % 256, (v \div 65536) % 256, (v \div 16777216) % 256 >>

\* struct.unpack('<I', data[4:8])[0]
UnpackLE32(data) ==
    data[5] + 256 * data[6] + 65536 * data[7] + 16777216 * data[8]

\* s[a:b] of Python, for 0 <= a
Slice(s, a, b) ==
    LET hi == IF b < Len(s) THEN b ELSE Len(s)
    IN  IF a >= hi THEN <<>> ELSE SubSeq(s, a + 1, hi)

Zeros(n) == [i \in 1..n |-> 0]

----------------------------------------------------------------------------
(* Identifiers and objects *)

sdo_tx == 1536 + node_id
sdo_rx == 1408 + node_id
heartbeat_id == 1792 + node_id

PROGRAM_CONTROL_LO == 81
FIRMWARE_INDEX == 8016
FIRMWARE_SUBINDEX == 1
SDO_TIMEOUT_ABORT == 84148224
CMD_ABORT == 128
CMD_WRITE_OK == 96
CMD_UPLOAD_1BYTE == 79
CMD_READ == 64
CMD_WRITE_1BYTE == 47
CMD_INITIATE == 33
ASCII_COLON == 58

Message(arbitration_id, data) == [id |-> arbitration_id, data |-> data]

\* _get_program: the expedited upload request of 0x1F51:01
ReadModeFrame ==
    Message(sdo_tx, <<CMD_READ, PROGRAM_CONTROL_LO, 31, 1, 0, 0, 0, 0>>)

\* _set_program: the expedited 1-byte download request of 0x1F51:01
WriteModeFrame(program) ==
    Message(sdo_tx, <<CMD_WRITE_1BYTE, PROGRAM_CONTROL_LO, 31, 1, program, 0, 0, 0>>)

\* the initiate request with the length packed most significant byte first
InitiateFrameBigEndianLength(index, subindex, data) ==
    Message(sdo_tx,
            <<CMD_INITIATE, BitAnd(index, 255), BitAnd(ShiftRight(index, 8), 255),
              subindex, 0, 0, (Len(data) \div 256) % 256, Len(data) % 256>>)

\* _sdo_segmented_download: the initiate request
InitiateFrame(index, subindex, data) ==
    Message(sdo_tx,
            <<CMD_INITIATE, BitAnd(index, 255), BitAnd(ShiftRight(index, 8), 255),
              subindex>> \o PackLE32(Len(data)))

----------------------------------------------------------------------------
(* HEX codec: _bin_to_intel_hex and _read_file *)

BYTES_PER_LINE == 16
APP_BASE_ADDRESS == 134316032
ASCII_NEWLINE == 10

RECURSIVE SumSeq(_)
SumSeq(s) == IF s = <<>> THEN 0 ELSE Head(s) + SumSeq(Tail(s))

\* one digit of the format specs 02X / 04X and of bytes.hex().upper()
HexDigit(n) == IF n < 10 THEN 48 + n ELSE 55 + n

\* f"{b:02X}"
Hex2(b) == <<HexDigit((b \div 16) % 16), HexDigit(b % 16)>>

\* f"{a:04X}"
Hex4(a) == Hex2((a \div 256) % 256) \o Hex2(a % 256)

\* bytes.hex().upper()
RECURSIVE HexOfBytes(_)
HexOfBytes(bs) == IF bs = <<>> THEN <<>> ELSE Hex2(Head(bs)) \o HexOfBytes(Tail(bs))

\* the one's complement of the sum in place of its two's complement
ChecksumOnesComplement(total) == 255 - (total % 256)

\* (-(total)) & 0xFF
Checksum(total) == (256 - (total % 256)) % 256

\* the Extended Linear Address line (type 04) for upper_addr
ElaLine(upper_addr) ==
    LET ela_data == <<(upper_addr \div 256) % 256, upper_addr % 256>>
        ela_checksum == Checksum(2 + 0 + 0 + 4 + SumSeq(ela_data))
    IN  <<ASCII_COLON>> \o Hex2(2) \o Hex4(0) \o Hex2(4) \o HexOfBytes(ela_data)
          \o Hex2(ela_checksum) \o <<ASCII_NEWLINE>>

\* the data line (type 00) of one chunk at the 16-bit address
DataLine(address, chunk) ==
    LET byte_count == Len(chunk)
        checksum == Checksum(byte_count + ShiftRight(address, 8) + BitAnd(address, 255)
                             + 0 + SumSeq(chunk))
    IN  <<ASCII_COLON>> \o Hex2(byte_count) \o Hex4(address) \o Hex2(0)
          \o HexOfBytes(chunk) \o Hex2(checksum) \o <<ASCII_NEWLINE>>

\* the Start Linear Address line with the word in the byte order of the binary
SlaLineLittleEndian(binary_data) ==
    LET sla_data == Slice(binary_data, 4, 8)
        sla_checksum == Checksum(4 + 0 + 0 + 5 + SumSeq(sla_data))
    IN  <<ASCII_COLON>> \o Hex2(4) \o Hex4(0) \o Hex2(5) \o HexOfBytes(sla_data)
          \o Hex2(sla_checksum) \o <<ASCII_NEWLINE>>

\* the Start Linear Address line (type 05): the little-endian word at offset 4 of
\* the binary, written big-endian (the 32-bit value is never formed as one integer)
SlaLine(binary_data) ==
    LET word == Slice(binary_data, 4, 8)
        sla_data == <<word[4], word[3], word[2], word[1]>>
        sla_checksum == Checksum(4 + 0 + 0 + 5 + SumSeq(sla_data))
    IN  <<ASCII_COLON>> \o Hex2(4) \o Hex4(0) \o Hex2(5) \o HexOfBytes(sla_data)
          \o Hex2(sla_checksum) \o <<ASCII_NEWLINE>>

EofLine == <<ASCII_COLON>> \o Hex2(0) \o Hex4(0) \o Hex2(1) \o <<70, 70, ASCII_NEWLINE>>

\* the loop over the chunks with an ELA line before the first chunk only
RECURSIVE DataLinesOneEla(_, _, _, _)
DataLinesOneEla(binary_data, base_address, offset0, current_upper_addr) ==
    IF offset0 >= Len(binary_data) THEN <<>>
    ELSE LET chunk == Slice(binary_data, offset0, offset0 + BYTES_PER_LINE)
             full_address == base_address + offset0
             upper_addr == BitAnd(ShiftRight(full_address, 16), 65535)
             address == BitAnd(full_address, 65535)
             ela == IF current_upper_addr = None
                    THEN <<ElaLine(upper_addr)>> ELSE <<>>
         IN  ela \o <<DataLine(address, chunk)>>
               \o DataLinesOneEla(binary_data, base_address, offset0 + BYTES_PER_LINE,
                                  upper_addr)

\* the loop over the chunks: the lines appended from offset on, current_upper_addr
\* being the upper address of the last ELA line written (None: none yet)
RECURSIVE DataLines(_, _, _, _)
DataLines(binary_data, base_address, offset0, current_upper_addr) ==
    IF offset0 >= Len(binary_data) THEN <<>>
    ELSE LET chunk == Slice(binary_data, offset0, offset0 + BYTES_PER_LINE)
             full_address == base_address + offset0
             upper_addr == BitAnd(ShiftRight(full_address, 16), 65535)
             address == BitAnd(full_address, 65535)
             ela == IF upper_addr # current_upper_addr
                    THEN <<ElaLine(upper_addr)>> ELSE <<>>
         IN  ela \o <<DataLine(address, chunk)>>
               \o DataLines(binary_data, base_address, offset0 + BYTES_PER_LINE,
                            upper_addr)

\* hex_lines of _bin_to_intel_hex
HexLines(binary_data, base_address) ==
    DataLines(binary_data, base_address, 0, None)
      \o (IF Len(binary_data) >= 8 THEN <<SlaLine(binary_data)>> ELSE <<>>)
      \o <<EofLine>>

\* b''.join(hex_lines)
RECURSIVE Join(_)
Join(lines) == IF lines = <<>> THEN <<>> ELSE Head(lines) \o Join(Tail(lines))

BinToIntelHex(binary_data, base_address) == Join(HexLines(binary_data, base_address))

\* _read_file without the conversion: every file is sent as it is
ReadFileVerbatim(f) ==
    IF f = NoFile THEN NoBuffer ELSE f

\* _read_file: the file as it is when it starts with ':', else its HEX encoding;
\* None when the file cannot be read
ReadFile(f) ==
    IF f = NoFile THEN NoBuffer
    ELSE IF Len(f) > 0 /\ f[1] = ASCII_COLON THEN f
    ELSE BinToIntelHex(f, APP_BASE_ADDRESS)


----------------------------------------------------------------------------
(* Segmented download: the frames and the classification of responses *)

\* the command byte with the count of unused bytes left in bits 0-2
SegCmdUnshifted(tgl, is_last, n) ==
    LET cmd0 == ShiftLeft(tgl, 4)
        cmd1 == IF is_last THEN BitOr(cmd0, 1) ELSE cmd0
    IN  BitOr(cmd1, n)

\* the command byte of a segment: bit 4 toggle, bit 0 last, bits 1-3 unused bytes
SegCmd(tgl, is_last, n) ==
    LET cmd0 == ShiftLeft(tgl, 4)
        cmd1 == IF is_last THEN BitOr(cmd0, 1) ELSE cmd0
    IN  BitOr(cmd1, ShiftLeft(n, 1))

\* data[offset:offset+7]
SegmentData(data, off) == Slice(data, off, off + 7)

\* is_last = (offset + bytes_in_segment >= len(data))
IsLast(data, off) == off + Len(SegmentData(data, off)) >= Len(data)

\* the segment frame with a toggle bit that is never flipped
SegmentFrameNoToggle(data, off, tgl) ==
    LET segment_data == SegmentData(data, off)
        bytes_in_segment == Len(segment_data)
        cmd == SegCmd(0, IsLast(data, off), 7 - bytes_in_segment)
    IN  Message(sdo_tx, <<cmd>> \o segment_data \o Zeros(7 - Len(segment_data)))

\* the segment frame sent at offset off with toggle tgl
SegmentFrame(data, off, tgl) ==
    LET segment_data == SegmentData(data, off)
        bytes_in_segment == Len(segment_data)
        cmd == SegCmd(tgl, IsLast(data, off), 7 - bytes_in_segment)
    IN  Message(sdo_tx, <<cmd>> \o segment_data \o Zeros(7 - Len(segment_data)))

\* total_segments = (len(data) + 6) // 7
TotalSegments(data) == (Len(data) + 6) \div 7

\* what the download does with the response to its initiate frame
InitVerdict(resp) ==
    IF resp = NoFrame THEN "init_timeout"
    ELSE IF resp.data[1] = CMD_ABORT THEN "init_abort"
    ELSE IF resp.data[1] # CMD_WRITE_OK THEN "init_unexpected"
    ELSE "initiated"

\* the classification without the comparison of the toggle bits
SegVerdictAnyToggle(resp, tgl) ==
    IF resp = NoFrame THEN "seg_timeout"
    ELSE IF resp.data[1] = CMD_ABORT THEN "seg_abort"
    ELSE IF BitAnd(resp.data[1], 224) # 32 THEN "seg_unexpected"
    ELSE "accepted"

\* what the download does with the response to a segment sent with toggle tgl
SegVerdict(resp, tgl) ==
    IF resp = NoFrame THEN "seg_timeout"
    ELSE IF resp.data[1] = CMD_ABORT THEN "seg_abort"
    ELSE IF BitAnd(resp.data[1], 224) # 32 THEN "seg_unexpected"
    ELSE IF BitAnd(ShiftRight(resp.data[1], 4), 1) # tgl THEN "toggle_mismatch"
    ELSE "accepted"

----------------------------------------------------------------------------
(* Mode control: the classification of responses *)

\* _get_program that takes byte 4 of any response of the device for the mode
GetProgramResultAnyResponse(resp) ==
    IF resp = NoFrame \/ resp.id # sdo_rx THEN None
    ELSE resp.data[5]

\* the value _get_program returns for the frame bus.recv gave it
GetProgramResult(resp) ==
    IF resp = NoFrame \/ resp.id # sdo_rx THEN None
    ELSE IF resp.data[1] = CMD_UPLOAD_1BYTE THEN resp.data[5]
    ELSE None

\* _set_program without the exception for the abort code "SDO timeout"
SetProgramResultAnyAbortFails(resp) ==
    IF resp # NoFrame /\ resp.id = sdo_rx /\ resp.data[1] = CMD_WRITE_OK THEN TRUE
    ELSE IF resp # NoFrame /\ resp.id = sdo_rx /\ resp.data[1] = CMD_ABORT THEN FALSE
    ELSE TRUE

\* the value _set_program returns for the frame bus.recv gave it
SetProgramResult(resp) ==
    IF resp # NoFrame /\ resp.id = sdo_rx /\ resp.data[1] = CMD_WRITE_OK THEN TRUE
    ELSE IF resp # NoFrame /\ resp.id = sdo_rx /\ resp.data[1] = CMD_ABORT
         THEN UnpackLE32(resp.data) = SDO_TIMEOUT_ABORT
    ELSE TRUE

----------------------------------------------------------------------------
(* The bus as the updater sees it *)

\* requests the device holds unanswered.  In a run of program() a request is lost
\* once the updater has sent the next one; the single operations are analysed
\* with replies that arrive late, after later requests.
PendingBound == IF entry = "program" THEN 1 ELSE MaxPending

\* bus.send(msg): the frame is on the wire; the oldest unhandled request is lost
\* when the device holds PendingBound of them already
Queued(p, msg) ==
    IF Len(p) < PendingBound THEN Append(p, msg) ELSE Append(Tail(p), msg)

\* bus.recv(timeout): the oldest queued frame, or None when none is queued
Recv == IF rxq = <<>> THEN NoFrame ELSE Head(rxq)
AfterRecv == IF rxq = <<>> THEN rxq ELSE Tail(rxq)

\* the frame _wait_for_sdo_response is ready to return: a queued frame of
\* sdo_rx at the head, or None once nothing is queued and the bound has elapsed
Matched == IF rxq = <<>> THEN TRUE ELSE Head(rxq).id = sdo_rx

\* return of a call: the caller continues at the address on top of the stack
Return == pc' = Head(stack) /\ stack' = Tail(stack)

Note(progress, state) == <<progress, state>>


----------------------------------------------------------------------------
(* The three drains: `while self.bus.recv(timeout=0.001): pass` *)

DrainStep ==
    /\ pc \in {"gp_drain", "sp_drain", "dl_drain"}
    /\ rxq # <<>>
    /\ rxq' = Tail(rxq)
    /\ UNCHANGED <<cfgVars, parser, progVars, pollVars, dlVars, devVars, cancelled, pc, stack,
                   current_program, ret, response, pending, sent, notes, fault,
                   appSeen>>

----------------------------------------------------------------------------
(* _get_program *)

GetProgramSend ==
    /\ pc = "gp_drain"
    /\ rxq = <<>>
    /\ sent' = Append(sent, ReadModeFrame)
    /\ pending' = Queued(pending, ReadModeFrame)
    /\ pc' = "gp_recv"
    /\ UNCHANGED <<cfgVars, parser, progVars, pollVars, dlVars, devVars, cancelled, stack,
                   current_program, ret, response, rxq, notes, fault, appSeen>>

GetProgramRecv ==
    /\ pc = "gp_recv"
    /\ response' = Recv
    /\ rxq' = AfterRecv
    /\ current_program' = GetProgramResult(Recv)
    /\ appSeen' = (appSeen \/ (in_bootloader /\ GetProgramResult(Recv) = 1))
    /\ fault' = (fault \/ rxq = <<>>)
    /\ Return
    /\ UNCHANGED <<cfgVars, parser, progVars, pollVars, dlVars, devVars, cancelled, ret,
                   pending, sent, notes>>

----------------------------------------------------------------------------
(* _set_program(target_program) *)

SetProgramSend ==
    /\ pc = "sp_drain"
    /\ rxq = <<>>
    /\ sent' = Append(sent, WriteModeFrame(target_program))
    /\ pending' = Queued(pending, WriteModeFrame(target_program))
    /\ pc' = "sp_recv"
    /\ UNCHANGED <<cfgVars, parser, progVars, pollVars, dlVars, devVars, cancelled, stack,
                   current_program, ret, response, rxq, notes, fault, appSeen>>

SetProgramRecv ==
    /\ pc = "sp_recv"
    /\ response' = Recv
    /\ rxq' = AfterRecv
    /\ ret' = SetProgramResult(Recv)
    /\ fault' = (fault \/ rxq = <<>>)
    /\ Return
    /\ UNCHANGED <<cfgVars, parser, progVars, pollVars, dlVars, devVars, cancelled,
                   current_program, pending, sent, notes, appSeen>>

----------------------------------------------------------------------------
(* _change_program(target_program, timeout_ms, cancellation_token) *)

\* the loop without the test of the cancellation token
ChangeProgramLoopIgnoresToken ==
    /\ pc = "cp_loop"
    /\ response' = NoFrame
    /\ \/ /\ attempt >= 1
          /\ ret' = FALSE
          /\ fault' = TRUE
          /\ Return
          /\ UNCHANGED attempt
       \/ /\ attempt < MaxPolls
          /\ attempt' = attempt + 1
          /\ pc' = "gp_drain"
          /\ stack' = <<"cp_read">> \o stack
          /\ UNCHANGED <<ret, fault>>
    /\ UNCHANGED <<cfgVars, parser, progVars, dlVars, busVars, devVars, cancelled,
                   target_program, vattempt, current_program, notes,
                   appSeen>>

\* the loop test and the top of an iteration: the deadline has passed (never
\* before the first iteration), or the token is set, or the mode is read
ChangeProgramLoop ==
    /\ pc = "cp_loop"
    /\ response' = NoFrame
    /\ \/ /\ attempt >= 1
          /\ ret' = FALSE
          /\ fault' = TRUE
          /\ Return
          /\ UNCHANGED <<attempt, why>>
       \/ /\ attempt < MaxPolls
          /\ attempt' = attempt + 1
          /\ IF cancelled
             THEN ret' = FALSE /\ why' = "mode_cancelled" /\ Return
             ELSE /\ pc' = "gp_drain"
                  /\ stack' = <<"cp_read">> \o stack
                  /\ UNCHANGED <<ret, why>>
          /\ UNCHANGED fault
    /\ UNCHANGED <<cfgVars, parser, progVars, offset, toggle, segment_num, busVars,
                   devVars, cancelled, target_program, vattempt, current_program, notes,
                   appSeen>>

\* _change_program without the comparison: the mode is written whatever was read
ChangeProgramReadAlwaysWrites ==
    /\ pc = "cp_read"
    /\ response' = NoFrame
    /\ pc' = "sp_drain"
    /\ stack' = <<"cp_loop">> \o stack
    /\ UNCHANGED <<cfgVars, parser, progVars, pollVars, dlVars, busVars, devVars, cancelled,
                   current_program, ret, notes, fault, appSeen>>

\* _change_program that takes a confirmed write of the mode for the switch
ChangeProgramReadTrustsWrite ==
    /\ pc = "cp_read"
    /\ response' = NoFrame
    /\ IF current_program = target_program \/ (attempt >= 2 /\ ret)
       THEN ret' = TRUE /\ Return
       ELSE /\ pc' = "sp_drain"
            /\ stack' = <<"cp_loop">> \o stack
            /\ UNCHANGED ret
    /\ UNCHANGED <<cfgVars, parser, progVars, pollVars, dlVars, busVars, devVars,
                   cancelled, current_program, notes, fault, appSeen>>

\* after the read: done when the mode is the target, else _set_program
ChangeProgramRead ==
    /\ pc = "cp_read"
    /\ response' = NoFrame
    /\ IF current_program = target_program
       THEN ret' = TRUE /\ Return
       ELSE /\ pc' = "sp_drain"
            /\ stack' = <<"cp_loop">> \o stack
            /\ UNCHANGED ret
    /\ UNCHANGED <<cfgVars, parser, progVars, pollVars, dlVars, busVars, devVars, cancelled,
                   current_program, notes, fault, appSeen>>

----------------------------------------------------------------------------
(* _sdo_segmented_download(0x1F50, 0x01, buffer, ..., cancellation_token) *)

DownloadInitiate ==
    /\ pc = "dl_drain"
    /\ rxq = <<>>
    /\ sent' = Append(sent, InitiateFrame(FIRMWARE_INDEX, FIRMWARE_SUBINDEX, buffer))
    /\ pending' = Queued(pending, InitiateFrame(FIRMWARE_INDEX, FIRMWARE_SUBINDEX, buffer))
    /\ pc' = "dl_init_wait"
    /\ UNCHANGED <<cfgVars, parser, progVars, pollVars, dlVars, devVars, cancelled, stack,
                   current_program, ret, response, rxq, notes, fault, appSeen>>

\* _wait_for_sdo_response: a heartbeat or a frame of another id is skipped
WaitSkip ==
    /\ pc \in {"dl_init_wait", "dl_seg_wait"}
    /\ rxq # <<>>
    /\ Head(rxq).id # sdo_rx
    /\ rxq' = Tail(rxq)
    /\ UNCHANGED <<cfgVars, parser, progVars, pollVars, dlVars, devVars, cancelled, pc, stack,
                   current_program, ret, response, pending, sent, notes, fault,
                   appSeen>>

\* the response to the initiate frame (None: 5 s elapsed).  The simple updater
\* keeps waiting after an unexpected command byte, v2.1 gives up.
DownloadInitResponse ==
    /\ pc = "dl_init_wait"
    /\ Matched
    /\ response' = Recv
    /\ rxq' = AfterRecv
    /\ fault' = (fault \/ rxq = <<>>)
    /\ LET v == InitVerdict(Recv)
       IN  IF v = "initiated"
           THEN /\ offset' = 0 /\ toggle' = 0 /\ segment_num' = 0
                /\ pc' = "dl_loop"
                /\ UNCHANGED <<stack, ret, why>>
           ELSE IF v = "init_unexpected" /\ impl = "simple"
           THEN UNCHANGED <<offset, toggle, segment_num, pc, stack, ret, why>>
           ELSE /\ ret' = FALSE /\ why' = v
                /\ Return
                /\ UNCHANGED <<offset, toggle, segment_num>>
    /\ UNCHANGED <<cfgVars, parser, progVars, pollVars, devVars, cancelled, current_program,
                   pending, sent, notes, appSeen>>

\* the top of the segment loop: finished, cancelled (v2.1 only), or the next
\* segment is sent
DownloadLoop ==
    /\ pc = "dl_loop"
    /\ IF offset >= Len(buffer)
       THEN /\ ret' = TRUE /\ why' = "complete"
            /\ Return
            /\ UNCHANGED <<pending, sent>>
       ELSE IF impl = "v2.1" /\ cancelled
       THEN /\ ret' = FALSE /\ why' = "cancelled"
            /\ Return
            /\ UNCHANGED <<pending, sent>>
       ELSE /\ sent' = Append(sent, SegmentFrame(buffer, offset, toggle))
            /\ pending' = Queued(pending, SegmentFrame(buffer, offset, toggle))
            /\ pc' = "dl_seg_wait"
            /\ UNCHANGED <<stack, ret, why>>
    /\ UNCHANGED <<cfgVars, parser, progVars, pollVars, devVars, cancelled, offset, toggle,
                   segment_num, current_program, response, rxq, notes, fault,
                   appSeen>>

\* the response to a segment, the offset advancing by 7 whatever the length of
\* the segment
DownloadSegResponseAdvancesSeven ==
    /\ pc = "dl_seg_wait"
    /\ Matched
    /\ response' = Recv
    /\ rxq' = AfterRecv
    /\ fault' = (fault \/ rxq = <<>>)
    /\ LET v == SegVerdict(Recv, toggle)
       IN  IF v = "accepted"
           THEN /\ offset' = offset + 7
                /\ toggle' = 1 - toggle
                /\ segment_num' = segment_num + 1
                /\ pc' = "dl_loop"
                /\ UNCHANGED <<stack, ret, why>>
           ELSE /\ ret' = FALSE /\ why' = v
                /\ Return
                /\ UNCHANGED <<offset, toggle, segment_num>>
    /\ UNCHANGED <<cfgVars, parser, progVars, pollVars, devVars, cancelled,
                   current_program, pending, sent, notes, appSeen>>

\* the response to a segment, the segment being sent again after a timeout
DownloadSegResponseRetriesTimeout ==
    /\ pc = "dl_seg_wait"
    /\ Matched
    /\ response' = Recv
    /\ rxq' = AfterRecv
    /\ fault' = (fault \/ rxq = <<>>)
    /\ LET v == SegVerdict(Recv, toggle)
       IN  IF v = "accepted"
           THEN /\ offset' = offset + Len(SegmentData(buffer, offset))
                /\ toggle' = 1 - toggle
                /\ segment_num' = segment_num + 1
                /\ pc' = "dl_loop"
                /\ UNCHANGED <<stack, ret, why>>
           ELSE IF v = "seg_timeout"
           THEN /\ pc' = "dl_loop"
                /\ UNCHANGED <<offset, toggle, segment_num, stack, ret, why>>
           ELSE /\ ret' = FALSE /\ why' = v
                /\ Return
                /\ UNCHANGED <<offset, toggle, segment_num>>
    /\ UNCHANGED <<cfgVars, parser, progVars, pollVars, devVars, cancelled,
                   current_program, pending, sent, notes, appSeen>>

\* the response to a segment (None: 2 s elapsed)
DownloadSegResponse ==
    /\ pc = "dl_seg_wait"
    /\ Matched
    /\ response' = Recv
    /\ rxq' = AfterRecv
    /\ fault' = (fault \/ rxq = <<>>)
    /\ LET v == SegVerdict(Recv, toggle)
       IN  IF v = "accepted"
           THEN /\ offset' = offset + Len(SegmentData(buffer, offset))
                /\ toggle' = 1 - toggle
                /\ segment_num' = segment_num + 1
                /\ pc' = "dl_loop"
                /\ UNCHANGED <<stack, ret, why>>
           ELSE /\ ret' = FALSE /\ why' = v
                /\ Return
                /\ UNCHANGED <<offset, toggle, segment_num>>
    /\ UNCHANGED <<cfgVars, parser, progVars, pollVars, devVars, cancelled, current_program,
                   pending, sent, notes, appSeen>>


----------------------------------------------------------------------------
(* program(firmware_path, is_bootloader_file, callback, cancellation_token) *)

ctlVars == <<pc, stack, target_program, attempt, notes, exc, result>>

\* what the callback raises when _notify calls it ("none": it returns)
SinkRaises == IF sink = "throws" THEN "CallbackError" ELSE "none"

\* _notify without its try/except: what the callback raises leaves _notify
NotifyUnguarded(raised) == raised

\* the exception that leaves _notify when the callback raised `raised`:
\* `except Exception` catches it and prints it
Notify(raised) == "none"

\* the exception propagating after a notification made while e was propagating
Propagating(e) == IF Notify(SinkRaises) # "none" THEN Notify(SinkRaises) ELSE e

\* the end of program(): `return True` unless an exception is propagating or the
\* final cancellation check raises; both except clauses return False
Finish(n, e, fl) ==
    /\ notes' = n
    /\ exc' = Propagating(e)
    /\ result' = IF Propagating(e) # "none" \/ (~fl /\ cancelled) THEN "failure"
                 ELSE "success"
    /\ pc' = "done"
    /\ stack' = <<>>
    /\ UNCHANGED <<target_program, attempt>>

\* a call of _change_program(target, ...), the stack being stk during the call
StartChange(n, e, target, stk) ==
    /\ notes' = n
    /\ exc' = Propagating(e)
    /\ target_program' = target
    /\ attempt' = 0
    /\ pc' = "cp_loop"
    /\ stack' = stk
    /\ UNCHANGED result

\* PHASE 5 written as a statement after the try block instead of a finally
\* block: it is skipped while an exception propagates
EnterFinallyAfterTry(n, e, fl, ib) ==
    IF is_bootloader_file \/ e # "none" THEN Finish(n, e, fl)
    ELSE IF ~ib /\ cancelled THEN Finish(n, "InterruptedError", fl)
    ELSE StartChange(Append(n, Note("application", "busy")), e, 1, <<"after_return">>)

\* the finally block (PHASE 5), entered with exception e propagating or "none"
EnterFinally(n, e, fl, ib) ==
    IF is_bootloader_file THEN Finish(n, e, fl)
    ELSE IF ~ib /\ cancelled THEN Finish(n, "InterruptedError", fl)
    ELSE StartChange(Append(n, Note("application", "busy")), e, 1, <<"after_return">>)

\* PHASE 3 up to the call of the download
BeginFlash(n, ib) ==
    IF flashed /\ cancelled THEN EnterFinally(n, "InterruptedError", flashed, ib)
    ELSE /\ notes' = Append(n, Note("flashing", "busy"))
         /\ pc' = "dl_drain"
         /\ stack' = <<"after_flash">>
         /\ exc' = Propagating(exc)
         /\ UNCHANGED <<target_program, attempt, result>>

\* PHASE 1 and the mode check's read request
ProgramStart ==
    /\ pc = "start"
    /\ buffer' = ReadFile(file)
    /\ flashed' = FALSE
    /\ in_bootloader' = FALSE
    /\ IF ReadFile(file) = NoBuffer
       THEN /\ notes' = notes \o <<Note("file", "busy"), Note("file", "failed")>>
            /\ result' = "failure"
            /\ pc' = "done"
            /\ UNCHANGED stack
       ELSE /\ notes' = notes \o <<Note("file", "busy"), Note("file", "success")>>
            /\ pc' = "gp_drain"
            /\ stack' = <<"modecheck">>
            /\ UNCHANGED result
    /\ exc' = Propagating(exc)
    /\ UNCHANGED <<cfgVars, parser, dlVars, busVars, devVars, cancelled, target_program,
                   attempt, vattempt, current_program, ret, response, fault,
                   appSeen>>

\* PHASE 2 without the comparison: the switch is made whatever was read
ModeCheckAlwaysSwitches ==
    /\ pc = "modecheck"
    /\ response' = NoFrame
    /\ StartChange(Append(notes, Note("bootloader", "busy")), exc, 0, <<"after_enter">>)
    /\ UNCHANGED <<cfgVars, parser, dlVars, busVars, devVars, cancelled, buffer, flashed,
                   in_bootloader, vattempt, current_program, ret, fault, appSeen>>

\* PHASE 2 after the mode check: skip the switch when already in bootloader
ModeCheck ==
    /\ pc = "modecheck"
    /\ response' = NoFrame
    /\ IF current_program = 0
       THEN /\ in_bootloader' = TRUE
            /\ BeginFlash(Append(notes, Note("bootloader", "success")), TRUE)
       ELSE /\ StartChange(Append(notes, Note("bootloader", "busy")), exc, 0,
                           <<"after_enter">>)
            /\ UNCHANGED in_bootloader
    /\ UNCHANGED <<cfgVars, parser, dlVars, busVars, devVars, cancelled, buffer, flashed,
                   vattempt, current_program, ret, fault, appSeen>>

\* PHASE 2 going on to the download whatever _change_program(0, 30000) returned
AfterEnterProceeds ==
    /\ pc = "after_enter"
    /\ in_bootloader' = TRUE
    /\ BeginFlash(Append(notes, Note("bootloader", "success")), TRUE)
    /\ UNCHANGED <<cfgVars, parser, dlVars, busVars, devVars, cancelled, buffer, flashed,
                   vattempt, current_program, ret, response, fault, appSeen>>

\* PHASE 2 after _change_program(0, 30000): the failure is raised outside the
\* try/finally of phases 3 to 5
AfterEnter ==
    /\ pc = "after_enter"
    /\ IF ~ret
       THEN /\ Finish(Append(notes, Note("bootloader", "failed")), "Exception", flashed)
            /\ UNCHANGED in_bootloader
       ELSE /\ in_bootloader' = TRUE
            /\ BeginFlash(Append(notes, Note("bootloader", "success")), TRUE)
    /\ UNCHANGED <<cfgVars, parser, dlVars, busVars, devVars, cancelled, buffer, flashed,
                   vattempt, current_program, ret, response, fault, appSeen>>

\* PHASE 3 after the download, a download stopped by the token being reported
\* with State.CANCELED
AfterFlashReportsCanceled ==
    /\ pc = "after_flash"
    /\ response' = NoFrame
    /\ IF ~ret
       THEN /\ EnterFinally(Append(notes, Note("flashing", IF why = "cancelled"
                                                            THEN "canceled"
                                                            ELSE "failed")),
                            "Exception", flashed, in_bootloader)
            /\ UNCHANGED <<flashed, vattempt>>
       ELSE /\ flashed' = TRUE
            /\ vattempt' = 0
            /\ StartChange(notes \o <<Note("flashing", "success"),
                                      Note("verifying", "busy")>>,
                           exc, 1, <<"vf_after", "after_verify">>)
    /\ UNCHANGED <<cfgVars, parser, dlVars, busVars, devVars, cancelled, buffer,
                   in_bootloader, current_program, ret, fault, appSeen>>

\* PHASE 3 after the download, and PHASE 4 up to the first _change_program(1, 10000)
\* of _verify_firmware
AfterFlash ==
    /\ pc = "after_flash"
    /\ response' = NoFrame
    /\ IF ~ret
       THEN /\ EnterFinally(Append(notes, Note("flashing", "failed")), "Exception",
                            flashed, in_bootloader)
            /\ UNCHANGED <<flashed, vattempt>>
       ELSE /\ flashed' = TRUE
            /\ vattempt' = 0
            /\ StartChange(notes \o <<Note("flashing", "success"),
                                      Note("verifying", "busy")>>,
                           exc, 1, <<"vf_after", "after_verify">>)
    /\ UNCHANGED <<cfgVars, parser, dlVars, busVars, devVars, cancelled, buffer,
                   in_bootloader, current_program, ret, fault, appSeen>>

\* _verify_firmware after a _change_program(1, 10000): success, the one retry, or
\* the diagnostic read of the mode
VerifyAfter ==
    /\ pc = "vf_after"
    /\ IF ret
       THEN /\ Return
            /\ UNCHANGED <<ret, vattempt, target_program, attempt>>
       ELSE IF vattempt = 0
       THEN /\ vattempt' = 1
            /\ target_program' = 1
            /\ attempt' = 0
            /\ pc' = "cp_loop"
            /\ stack' = <<"vf_after">> \o stack
            /\ UNCHANGED ret
       ELSE /\ pc' = "gp_drain"
            /\ stack' = <<"vf_diag">> \o stack
            /\ UNCHANGED <<ret, vattempt, target_program, attempt>>
    /\ UNCHANGED <<cfgVars, parser, progVars, dlVars, busVars, devVars, cancelled,
                   current_program, response, notes, fault, appSeen>>

\* _verify_firmware returning what the diagnostic read found
VerifyDiagTrustsRead ==
    /\ pc = "vf_diag"
    /\ response' = NoFrame
    /\ ret' = (current_program = 1)
    /\ Return
    /\ UNCHANGED <<cfgVars, parser, progVars, pollVars, dlVars, busVars, devVars,
                   cancelled, current_program, notes, fault, appSeen>>

\* _verify_firmware after the diagnostic read: return False
VerifyDiag ==
    /\ pc = "vf_diag"
    /\ response' = NoFrame
    /\ ret' = FALSE
    /\ Return
    /\ UNCHANGED <<cfgVars, parser, progVars, pollVars, dlVars, busVars, devVars, cancelled,
                   current_program, notes, fault, appSeen>>

\* PHASE 4 after _verify_firmware, entering the finally block
AfterVerify ==
    /\ pc = "after_verify"
    /\ IF ret
       THEN EnterFinally(Append(notes, Note("verifying", "success")), "none",
                         flashed, in_bootloader)
       ELSE EnterFinally(Append(notes, Note("verifying", "failed")), "Exception",
                         flashed, in_bootloader)
    /\ UNCHANGED <<cfgVars, parser, dlVars, busVars, devVars, cancelled, buffer, flashed,
                   in_bootloader, vattempt, current_program, ret, response, fault,
                   appSeen>>

\* PHASE 5 with a failed return to the application failing the run
AfterReturnFailsRun ==
    /\ pc = "after_return"
    /\ Finish(Append(notes, Note("application", IF ret THEN "success" ELSE "failed")),
              IF ret THEN exc ELSE "Exception", flashed)
    /\ UNCHANGED <<cfgVars, parser, dlVars, busVars, devVars, cancelled, buffer, flashed,
                   in_bootloader, vattempt, current_program, ret, response, fault,
                   appSeen>>

\* PHASE 5 after _change_program(1, 30000), and the end of program()
AfterReturn ==
    /\ pc = "after_return"
    /\ Finish(Append(notes, Note("application", IF ret THEN "success" ELSE "failed")),
              exc, flashed)
    /\ UNCHANGED <<cfgVars, parser, dlVars, busVars, devVars, cancelled, buffer, flashed,
                   in_bootloader, vattempt, current_program, ret, response, fault,
                   appSeen>>

----------------------------------------------------------------------------
(* The environment: the device, the bus, the caller *)

\* the abort code 0x08000000 "general error", one that is not "SDO timeout"
GENERAL_ABORT == 8 * 16777216

\* the SDO response id of the next node
OTHER_NODE_RX == sdo_rx + 1

RequestKind(req) ==
    IF req.data[1] = CMD_READ THEN "read"
    ELSE IF req.data[1] = CMD_WRITE_1BYTE THEN "write"
    ELSE IF req.data[1] = CMD_INITIATE THEN "initiate"
    ELSE "segment"

\* an expedited response or an abort to req: command byte, the object of the
\* request, four bytes
Reply(cmd, req, four) ==
    Message(sdo_rx, <<cmd, req.data[2], req.data[3], req.data[4]>> \o four)

AbortReply(req, code) == Reply(CMD_ABORT, req, PackLE32(code))

\* a response no request of the updater expects
StrayReply(req) == Reply(67, req, <<0, 0, 0, 0>>)

SegmentAck(tgl) == Message(sdo_rx, <<32 + 16 * tgl, 0, 0, 0, 0, 0, 0, 0>>)

\* what a conforming device answers, and the mode it is in afterwards
IdealReply(req) ==
    CASE RequestKind(req) = "read" ->
           [frame |-> Reply(CMD_UPLOAD_1BYTE, req, <<devMode, 0, 0, 0>>), mode |-> devMode]
      [] RequestKind(req) = "write" ->
           [frame |-> Reply(CMD_WRITE_OK, req, <<0, 0, 0, 0>>), mode |-> req.data[5]]
      [] RequestKind(req) = "initiate" ->
           [frame |-> Reply(CMD_WRITE_OK, req, <<0, 0, 0, 0>>), mode |-> devMode]
      [] OTHER ->
           [frame |-> SegmentAck((req.data[1] \div 16) % 2), mode |-> devMode]

\* every answer the device may give: the conforming one, an abort, a response
\* with an unexpected command byte; to a mode write also the abort "SDO
\* timeout" of a device that reboots into the mode; to a segment also the
\* acknowledgment with the wrong toggle bit
Replies(req) ==
    {IdealReply(req)}
    \cup {[frame |-> AbortReply(req, GENERAL_ABORT), mode |-> devMode],
          [frame |-> StrayReply(req), mode |-> devMode]}
    \cup (IF RequestKind(req) = "write"
          THEN {[frame |-> AbortReply(req, SDO_TIMEOUT_ABORT), mode |-> req.data[5]]}
          ELSE {})
    \cup (IF RequestKind(req) = "segment"
          THEN {[frame |-> SegmentAck(1 - ((req.data[1] \div 16) % 2)), mode |-> devMode]}
          ELSE {})

\* the updater is in bus.recv: draining, or waiting for a response.  A frame
\* that arrives at any other moment stays queued until the next bus.recv, so
\* arrivals are modelled at these positions only.
Receiving ==
    pc \in {"gp_drain", "gp_recv", "sp_drain", "sp_recv", "dl_drain", "dl_init_wait",
            "dl_seg_wait"}

\* the next step of the updater reads the cancellation token.  The token set at
\* any earlier moment is read at the same step, so the caller's cancel() is
\* modelled at these positions only.
ReadsToken ==
    pc \in {"cp_loop", "dl_loop", "modecheck", "after_enter", "after_flash",
            "after_verify", "after_return"}

Running == pc # "done"

\* a frame in the receive queue, with the position in `sent` of the request it
\* answers (0: it answers none)
Received(frame, request) == [id |-> frame.id, data |-> frame.data, re |-> request]

\* the device answers its oldest unhandled request
DeviceReply ==
    /\ Receiving
    /\ pending # <<>>
    /\ \E r \in Replies(Head(pending)) :
          /\ rxq' = Append(rxq, Received(r.frame, Len(sent) - Len(pending) + 1))
          /\ devMode' = r.mode
          /\ fault' = (fault \/ r # IdealReply(Head(pending)))
    /\ pending' = Tail(pending)
    /\ UNCHANGED <<cfgVars, parser, progVars, pollVars, dlVars, cancelled, pc, stack,
                   current_program, ret, response, noise, sent, notes, appSeen>>

\* the device never answers its oldest request (it is rebooting or offline); a
\* mode write may have taken effect all the same
DeviceSilent ==
    /\ Receiving
    /\ pending # <<>>
    /\ pending' = Tail(pending)
    /\ devMode' \in (IF RequestKind(Head(pending)) = "write"
                     THEN {devMode, Head(pending).data[5]} ELSE {devMode})
    /\ fault' = TRUE
    /\ UNCHANGED <<cfgVars, parser, progVars, pollVars, dlVars, cancelled, pc, stack,
                   current_program, ret, response, rxq, noise, sent, notes, appSeen>>

\* a heartbeat of the device or a frame of another node arrives
BusNoise ==
    /\ Receiving
    /\ noise < MaxNoise
    /\ noise' = noise + 1
    /\ \E f \in {Message(heartbeat_id, <<5>>),
                 Message(OTHER_NODE_RX, <<CMD_WRITE_OK, 0, 0, 0, 0, 0, 0, 0>>)} :
          rxq' = Append(rxq, Received(f, 0))
    /\ fault' = TRUE
    /\ UNCHANGED <<cfgVars, parser, progVars, pollVars, dlVars, cancelled, pc, stack,
                   current_program, ret, response, pending, devMode, sent, notes,
                   appSeen>>

\* the caller sets the cancellation token
Cancel ==
    /\ ReadsToken
    /\ ~cancelled
    /\ cancelled' = TRUE
    /\ fault' = TRUE
    /\ UNCHANGED <<cfgVars, parser, progVars, pollVars, dlVars, busVars, devVars, pc, stack,
                   current_program, ret, response, notes, appSeen>>

----------------------------------------------------------------------------
(* The run of program() *)

NodeIds == {3}

\* ":04000005" + 8 hex digits + checksum + newline: a 20-byte HEX file
HexFile20 == SlaLine(<<0, 0, 0, 0, 193, 128, 1, 8>>)

Bin20 == [i \in 1..20 |-> i]

Files == {NoFile, HexFile20, Bin20}

\* parse_intel_hex before its first line: data = bytearray(), extended_addr = 0,
\* base_address = None
NoParser == [text |-> <<>>, data |-> <<>>, extended_addr |-> 0, base_address |-> None]

\* a freshly constructed updater on a silent bus
Quiet ==
    /\ parser = NoParser
    /\ flashed = FALSE
    /\ in_bootloader = FALSE
    /\ exc = "none"
    /\ result = "running"
    /\ attempt = 0
    /\ vattempt = 0
    /\ current_program = None
    /\ ret = FALSE
    /\ offset = 0
    /\ toggle = 0
    /\ segment_num = 0
    /\ why = "none"
    /\ response = NoFrame
    /\ rxq = <<>>
    /\ pending = <<>>
    /\ noise = 0
    /\ sent = <<>>
    /\ notes = <<>>
    /\ fault = FALSE
    /\ appSeen = FALSE

Init ==
    /\ node_id \in NodeIds
    /\ file \in Files
    /\ is_bootloader_file \in BOOLEAN
    /\ entry = "program"
    /\ impl = "v2.1"
    /\ devMode \in {0, 1}
    /\ cancelled = FALSE
    /\ buffer = NoBuffer
    /\ target_program = 0
    /\ pc = "start"
    /\ stack = <<>>
    /\ hex_base_address = APP_BASE_ADDRESS
    /\ sink \in {"ok", "throws"}
    /\ Quiet

Next ==
    \/ ProgramStart \/ ModeCheck \/ AfterEnter \/ AfterFlash \/ VerifyAfter
    \/ VerifyDiag \/ AfterVerify \/ AfterReturn
    \/ ChangeProgramLoop \/ ChangeProgramRead
    \/ DrainStep \/ GetProgramSend \/ GetProgramRecv \/ SetProgramSend \/ SetProgramRecv
    \/ DownloadInitiate \/ DownloadInitResponse \/ DownloadLoop \/ DownloadSegResponse
    \/ DeviceReply \/ DeviceSilent \/ Cancel

Spec == Init /\ [][Next]_vars

----------------------------------------------------------------------------
(* One segmented download of a payload, by either updater, on a bus with
   late replies, heartbeats and frames of other nodes *)

DownloadNodeIds == {1, 127}

Payload(n) == [i \in 1..n |-> (37 * i + 11) % 256]

Payloads == {Payload(n) : n \in 0..MaxLen}

InitDownload ==
    /\ node_id \in DownloadNodeIds
    /\ file = NoFile
    /\ is_bootloader_file = FALSE
    /\ entry = "download"
    /\ impl \in {"v2.1", "simple"}
    /\ devMode = 0
    /\ cancelled \in BOOLEAN
    /\ buffer \in Payloads
    /\ target_program = 0
    /\ pc = "dl_drain"
    /\ stack = <<"done">>
    /\ hex_base_address = APP_BASE_ADDRESS
    /\ sink = "ok"
    /\ Quiet

NextDownload ==
    \/ DrainStep \/ DownloadInitiate \/ WaitSkip \/ DownloadInitResponse
    \/ DownloadLoop \/ DownloadSegResponse
    \/ DeviceReply \/ DeviceSilent \/ BusNoise \/ Cancel

SpecDownload == InitDownload /\ [][NextDownload]_vars

----------------------------------------------------------------------------
(* One download on a bus whose traffic never ends *)

\* a heartbeat arrives on the empty receive queue, as often as the bus likes
Traffic ==
    /\ Receiving
    /\ rxq = <<>>
    /\ rxq' = <<Received(Message(heartbeat_id, <<5>>), 0)>>
    /\ fault' = TRUE
    /\ UNCHANGED <<cfgVars, parser, progVars, pollVars, dlVars, cancelled, pc, stack,
                   current_program, ret, response, pending, devMode, noise, sent,
                   notes, appSeen>>

\* _wait_for_sdo_response: the bound elapses while frames of other ids are
\* being skipped; the loop ends and None is returned
WaitDeadline ==
    /\ pc \in {"dl_init_wait", "dl_seg_wait"}
    /\ rxq # <<>>
    /\ Head(rxq).id # sdo_rx
    /\ response' = NoFrame
    /\ ret' = FALSE
    /\ why' = (IF pc = "dl_init_wait" THEN "init_timeout" ELSE "seg_timeout")
    /\ fault' = TRUE
    /\ Return
    /\ UNCHANGED <<cfgVars, parser, progVars, pollVars, devVars, cancelled, offset,
                   toggle, segment_num, current_program, rxq, pending, sent, notes,
                   appSeen>>

NextLive == NextDownload \/ Traffic \/ WaitDeadline

\* time advances: every bus.recv returns, with a frame or at its timeout, and
\* the bound of a wait elapses; each statement of the download is executed
Fairness ==
    /\ WF_vars(DrainStep)
    /\ WF_vars(DownloadInitiate)
    /\ WF_vars(WaitSkip)
    /\ WF_vars(DownloadInitResponse \/ WaitDeadline)
    /\ WF_vars(DownloadSegResponse \/ WaitDeadline)
    /\ WF_vars(DownloadLoop)

SpecLive == InitDownload /\ [][NextLive]_vars /\ Fairness

----------------------------------------------------------------------------
(* One _change_program, _set_program or _get_program of the v2.1 updater *)

InitMode ==
    /\ node_id \in NodeIds
    /\ file = NoFile
    /\ is_bootloader_file = FALSE
    /\ entry \in {"change", "set", "get"}
    /\ impl = "v2.1"
    /\ devMode \in {0, 1}
    /\ cancelled = FALSE
    /\ buffer = NoBuffer
    /\ target_program \in {0, 1}
    /\ pc = (CASE entry = "change" -> "cp_loop"
               [] entry = "set" -> "sp_drain"
               [] OTHER -> "gp_drain")
    /\ stack = <<"done">>
    /\ hex_base_address = APP_BASE_ADDRESS
    /\ sink = "ok"
    /\ Quiet

NextMode ==
    \/ ChangeProgramLoop \/ ChangeProgramRead
    \/ DrainStep \/ GetProgramSend \/ GetProgramRecv \/ SetProgramSend \/ SetProgramRecv
    \/ DeviceReply \/ DeviceSilent \/ BusNoise \/ Cancel

SpecMode == InitMode /\ [][NextMode]_vars

----------------------------------------------------------------------------
(* program() of an application image, the device starting in application mode *)

InitApplication ==
    /\ Init
    /\ ~is_bootloader_file
    /\ devMode = 1

SpecApplication == InitApplication /\ [][Next]_vars

----------------------------------------------------------------------------
(* parse_intel_hex (update_firmware.py) *)

\* one character of int(x, 16): its value, None for a character that is no
\* hexadecimal digit
HexVal(c) ==
    IF c \in 48..57 THEN c - 48
    ELSE IF c \in 65..70 THEN c - 55
    ELSE IF c \in 97..102 THEN c - 87
    ELSE None

RECURSIVE HexIntFrom(_, _)
HexIntFrom(s, acc) ==
    IF s = <<>> THEN acc
    ELSE IF HexVal(Head(s)) = None THEN None
    ELSE HexIntFrom(Tail(s), 16 * acc + HexVal(Head(s)))

\* int(s, 16) of a string of hexadecimal digits; None stands for the ValueError
\* raised for the empty string and for any other character
HexInt(s) == IF s = <<>> THEN None ELSE HexIntFrom(s, 0)

IsSpace(c) == c \in {9, 10, 11, 12, 13, 32}

RECURSIVE StripLeft(_)
StripLeft(s) == IF s # <<>> /\ IsSpace(Head(s)) THEN StripLeft(Tail(s)) ELSE s

RECURSIVE StripRight(_)
StripRight(s) ==
    IF s # <<>> /\ IsSpace(s[Len(s)]) THEN StripRight(SubSeq(s, 1, Len(s) - 1)) ELSE s

\* line.strip()
Strip(s) == StripRight(StripLeft(s))

\* the length of the first line of the text, its newline included
RECURSIVE LineEnd(_, _)
LineEnd(text, i) ==
    IF i > Len(text) THEN Len(text)
    ELSE IF text[i] = ASCII_NEWLINE THEN i
    ELSE LineEnd(text, i + 1)

FirstLine(text) == SubSeq(text, 1, LineEnd(text, 1))

RestLines(text) == SubSeq(text, LineEnd(text, 1) + 1, Len(text))

\* for i in range(byte_count): data[offset + i] = int(line[9+2i:11+2i], 16),
\* from i on.  The loop ends at the first exception: a ValueError of int, or
\* the IndexError of an index outside the bytearray (a negative index counts
\* from the end).
RECURSIVE StoreBytes(_, _, _, _, _)
StoreBytes(line, data, offset0, i, byte_count) ==
    IF i >= byte_count THEN data
    ELSE LET byte_val == HexInt(Slice(line, 9 + 2 * i, 11 + 2 * i))
             idx == offset0 + i
             pos == IF idx >= 0 THEN idx ELSE idx + Len(data)
         IN  IF byte_val = None \/ pos < 0 \/ pos >= Len(data) THEN data
             ELSE StoreBytes(line, [data EXCEPT ![pos + 1] = byte_val], offset0, i + 1,
                             byte_count)

\* the extended address taken without the shift by 16 bits
ExtendedAddrUnshifted(upper) == upper

\* int(line[9:13], 16) << 16
ExtendedAddr(upper) == upper * 65536

\* the try block for one line that starts with ':': the locals after it.  An
\* exception leaves the assignments made before it in place.
ParseRecord(line, st) ==
    LET byte_count == HexInt(Slice(line, 1, 3))
        address == HexInt(Slice(line, 3, 7))
        record_type == HexInt(Slice(line, 7, 9))
    IN  IF byte_count = None \/ address = None \/ record_type = None THEN st
        ELSE IF record_type = 4
        THEN LET upper == HexInt(Slice(line, 9, 13))
             IN  IF upper = None THEN st ELSE [st EXCEPT !.extended_addr = ExtendedAddr(upper)]
        ELSE IF record_type = 0
        THEN LET full_addr == st.extended_addr + address
                 base == IF st.base_address = None THEN full_addr ELSE st.base_address
                 offset0 == full_addr - base
                 grown == IF offset0 + byte_count > Len(st.data)
                          THEN st.data \o [k \in 1..(offset0 + byte_count - Len(st.data)) |-> 255]
                          ELSE st.data
             IN  [st EXCEPT !.base_address = base,
                            !.data = StoreBytes(line, grown, offset0, 0, byte_count)]
        ELSE st

\* everything but the position, the text in hand and the codec's state
idleVars == <<node_id, file, is_bootloader_file, entry, impl, hex_base_address, sink,
              cancelled,
              stack, flashed, in_bootloader, exc, result, target_program, attempt,
              vattempt, current_program, ret, offset, toggle, segment_num, response,
              rxq, pending, devMode, noise, sent, notes, fault, appSeen, why>>

\* hex_data = _bin_to_intel_hex(data, base_address), written out for the parser
Encode ==
    /\ pc = "encode"
    /\ buffer' = BinToIntelHex(file, hex_base_address)
    /\ parser' = [NoParser EXCEPT !.text = BinToIntelHex(file, hex_base_address)]
    /\ pc' = "parse_line"
    /\ UNCHANGED idleVars

\* one iteration of `for line_num, line in enumerate(f, 1)`
ParseLine ==
    /\ pc = "parse_line"
    /\ parser.text # <<>>
    /\ LET line == Strip(FirstLine(parser.text))
           st == [parser EXCEPT !.text = RestLines(parser.text)]
       IN  parser' = IF line = <<>> \/ line[1] # ASCII_COLON THEN st
                     ELSE ParseRecord(line, st)
    /\ UNCHANGED <<idleVars, pc, buffer>>

\* return bytes(data)
ParseReturn ==
    /\ pc = "parse_line"
    /\ parser.text = <<>>
    /\ pc' = "done"
    /\ UNCHANGED <<idleVars, buffer, parser>>

MaxBin == 33

MaxGap == 3

Binaries == {Payload(n) : n \in 0..MaxBin}

\* the application base, a base 16 bytes below a 64 KB boundary, and 0
Bases == {APP_BASE_ADDRESS, APP_BASE_ADDRESS + 32752, 0}

GapShapes == [lead : {1, 16}, gap : 1..MaxGap, trail : {1, 2}, address : {0, 4096}]

\* records as _bin_to_intel_hex writes them, the second data record starting
\* g.gap bytes after the end of the first
GapText(g) ==
    ElaLine(2049) \o DataLine(g.address, Payload(g.lead))
      \o DataLine(g.address + g.lead + g.gap, Payload(g.trail)) \o EofLine

\* the addresses and lengths of data records that do not come in ascending
\* order: all at or above the first, and one below the first by 16, by 1, and
\* by 1 with two bytes
OrderShapes ==
    {<<[address |-> 4096, len |-> 2], [address |-> 4128, len |-> 2],
       [address |-> 4112, len |-> 2]>>,
     <<[address |-> 4112, len |-> 2], [address |-> 4096, len |-> 2]>>,
     <<[address |-> 4112, len |-> 2], [address |-> 4111, len |-> 1]>>,
     <<[address |-> 4112, len |-> 2], [address |-> 4111, len |-> 2]>>}

RECURSIVE OrderLines(_, _)
OrderLines(o, k) ==
    IF k > Len(o) THEN <<>>
    ELSE DataLine(o[k].address, [i \in 1..o[k].len |-> 16 * k + i]) \o OrderLines(o, k + 1)

\* well-formed records with the data records of shape o, the k-th carrying the
\* bytes 16k + 1, 16k + 2, ...
OrderText(o) == ElaLine(2049) \o OrderLines(o, 1) \o EofLine

\* malformed lines for address 0x1020: "ZZ" for the byte count; the byte AA
\* followed by "ZZ" where the second of two data bytes is declared; a byte
\* count of 4 with one data byte and a checksum
MalformedLines ==
    {<<ASCII_COLON, 90, 90>> \o Hex4(4128) \o Hex2(0) \o Hex2(170) \o Hex2(0)
        \o <<ASCII_NEWLINE>>,
     <<ASCII_COLON>> \o Hex2(2) \o Hex4(4128) \o Hex2(0) \o Hex2(170) \o <<90, 90>>
        \o Hex2(0) \o <<ASCII_NEWLINE>>,
     <<ASCII_COLON>> \o Hex2(4) \o Hex4(4128) \o Hex2(0) \o Hex2(170) \o Hex2(2)
        \o <<ASCII_NEWLINE>>}

MalformedShapes == [line : MalformedLines, first : BOOLEAN]

\* two well-formed data records at 0x1000 and 0x1002 with the malformed line
\* before the first or between the two
MalformedText(m) ==
    ElaLine(2049) \o (IF m.first THEN m.line ELSE <<>>) \o DataLine(4096, <<1, 2>>)
      \o (IF m.first THEN <<>> ELSE m.line) \o DataLine(4098, <<3, 4>>) \o EofLine

InitCodec ==
    /\ node_id \in NodeIds
    /\ sink = "ok"
    /\ is_bootloader_file = FALSE
    /\ impl = "simple"
    /\ devMode = 0
    /\ cancelled = FALSE
    /\ target_program = 0
    /\ stack = <<>>
    /\ flashed = FALSE
    /\ in_bootloader = FALSE
    /\ exc = "none"
    /\ result = "running"
    /\ attempt = 0
    /\ vattempt = 0
    /\ current_program = None
    /\ ret = FALSE
    /\ offset = 0
    /\ toggle = 0
    /\ segment_num = 0
    /\ why = "none"
    /\ response = NoFrame
    /\ rxq = <<>>
    /\ pending = <<>>
    /\ noise = 0
    /\ sent = <<>>
    /\ notes = <<>>
    /\ fault = FALSE
    /\ appSeen = FALSE
    /\ \/ /\ entry = "codec"
          /\ file \in Binaries
          /\ hex_base_address \in Bases
          /\ buffer = NoBuffer
          /\ parser = NoParser
          /\ pc = "encode"
       \/ /\ entry = "parse"
          /\ file \in {GapText(g) : g \in GapShapes}
          /\ hex_base_address = APP_BASE_ADDRESS
          /\ buffer = file
          /\ parser = [NoParser EXCEPT !.text = file]
          /\ pc = "parse_line"
       \/ /\ entry = "parse_order"
          /\ file \in {OrderText(o) : o \in OrderShapes}
          /\ hex_base_address = APP_BASE_ADDRESS
          /\ buffer = file
          /\ parser = [NoParser EXCEPT !.text = file]
          /\ pc = "parse_line"
       \/ /\ entry = "parse_malformed"
          /\ file \in {MalformedText(m) : m \in MalformedShapes}
          /\ hex_base_address = APP_BASE_ADDRESS
          /\ buffer = file
          /\ parser = [NoParser EXCEPT !.text = file]
          /\ pc = "parse_line"

NextCodec == Encode \/ ParseLine \/ ParseReturn

SpecCodec == InitCodec /\ [][NextCodec]_vars

----------------------------------------------------------------------------
(* Properties *)

HasNote(progress, state) == \E i \in DOMAIN notes : notes[i] = Note(progress, state)

\* a segment frame: the command byte has no bit above bit 4
IsSegmentFrame(f) == f.data[1] < 32

IsControlFrame(f) == ~IsSegmentFrame(f)

SegmentsSent == SelectSeq(sent, IsSegmentFrame)

ControlSent == SelectSeq(sent, IsControlFrame)

Times(f) == Cardinality({i \in DOMAIN sent : sent[i] = f})

CeilDiv7(n) == (n + 6) \div 7

\* C1: with an application image, once the Flash phase has failed the
\* ReturnToApplication phase runs next (_change_program(1) is the call in
\* progress, reported Busy), and when program() has returned the sink has
\* received Flash Failed, ReturnToApplication Busy and then Success or Failed as
\* its last three notifications, and the result is failure.
C1_FlashFailureReturnsToApplication ==
    (~is_bootloader_file /\ HasNote("flashing", "failed")) =>
        IF pc = "done"
        THEN /\ result = "failure"
             /\ Len(notes) >= 3
             /\ notes[Len(notes) - 2] = Note("flashing", "failed")
             /\ notes[Len(notes) - 1] = Note("application", "busy")
             /\ notes[Len(notes)] \in {Note("application", "success"),
                                       Note("application", "failed")}
        ELSE /\ target_program = 1
             /\ notes[Len(notes) - 1] = Note("flashing", "failed")
             /\ notes[Len(notes)] = Note("application", "busy")
             /\ (pc = "after_return" \/ stack[Len(stack)] = "after_return")

\* a run in which a segment timed out and the device was returned to the
\* application all the same
C1_Reached ==
    /\ pc = "done"
    /\ ~is_bootloader_file
    /\ why = "seg_timeout"
    /\ HasNote("flashing", "failed")
    /\ notes[Len(notes)] = Note("application", "success")
    /\ result = "failure"

\* C2: when program() has returned from a run with an application image in
\* which the device was seen in or switched to bootloader mode, the updater has
\* read the mode as Application since then or has sent a write of mode
\* Application.
C2_NeverLeftInBootloader ==
    (pc = "done" /\ ~is_bootloader_file /\ in_bootloader) =>
        (appSeen \/ Times(WriteModeFrame(1)) >= 1)

\* C3: when program() has returned from a run with an application image whose
\* file was read and in which a write of mode Bootloader was sent, the
\* ReturnToApplication phase has been reported.
C3_ReturnAttemptedAfterEnterFailure ==
    (pc = "done" /\ ~is_bootloader_file /\ buffer # NoBuffer
       /\ Times(WriteModeFrame(0)) >= 1) =>
        HasNote("application", "busy")

\* C4: a download that has sent a segment frame never ends because of the
\* cancellation token.
C4_NoCancelAfterFirstSegment ==
    why = "cancelled" => Len(SegmentsSent) = 0

\* the frames other than segments that a fault-free run sends: the mode read,
\* the switch to bootloader (read, write, read), the initiate frame, the switch
\* to application in Verify (read, write, read), the read of ReturnToApplication
FaultFreeControl ==
    <<ReadModeFrame, ReadModeFrame, WriteModeFrame(0), ReadModeFrame,
      InitiateFrame(8016, 1, buffer),
      ReadModeFrame, WriteModeFrame(1), ReadModeFrame, ReadModeFrame>>

FaultFreeNotes ==
    <<Note("file", "busy"), Note("file", "success"),
      Note("bootloader", "busy"), Note("bootloader", "success"),
      Note("flashing", "busy"), Note("flashing", "success"),
      Note("verifying", "busy"), Note("verifying", "success"),
      Note("application", "busy"), Note("application", "success")>>

FaultFreeRun(segments) ==
    /\ result = "success"
    /\ Times(WriteModeFrame(0)) = 1
    /\ Times(WriteModeFrame(1)) = 1
    /\ ControlSent = FaultFreeControl
    /\ Len(SegmentsSent) = segments
    /\ notes = FaultFreeNotes

\* C5, as the code has it: a fault-free run of program() that starts with the
\* device in application mode and a readable application image sends one write
\* of mode Bootloader, one initiate frame, ceil(P/7) segments, P being the
\* length of the payload (the file itself when it begins with ':', else its
\* Intel HEX text: 3 segments for the 20-byte HEX file, 16 for the 20-byte
\* binary file), one write of mode Application, reports the five phases in
\* order, Busy then Success, and returns success.
C5_FaultFreeRunOfPayload ==
    (pc = "done" /\ ~fault /\ file # NoFile) =>
        /\ FaultFreeRun(CeilDiv7(Len(buffer)))
        /\ file = HexFile20 => Len(SegmentsSent) = 3
        /\ file = Bin20 => Len(SegmentsSent) = 16

\* the fault-free run with the 20-byte binary image
C5_Reached ==
    /\ pc = "done"
    /\ ~fault
    /\ file = Bin20
    /\ result = "success"
    /\ Len(SegmentsSent) = 16

\* C5, as stated: the fault-free run sends ceil(L/7) segments, L being the
\* length of the image file.
C5_FaultFreeRunOfFileLength ==
    (pc = "done" /\ ~fault /\ file # NoFile) => FaultFreeRun(CeilDiv7(Len(file)))

\* the number of payload bytes in the k-th segment (k from 0) of a payload of
\* L bytes
ChunkLen(L, k) == IF L - 7 * k < 7 THEN L - 7 * k ELSE 7

\* C6: a download of a payload of L bytes that has returned success has sent
\* exactly ceil(L/7) segment frames after its initiate frame (none for L = 0);
\* the command byte of the last of them has bit 0 set and bits 1-3 equal to
\* (7 - L mod 7) mod 7, and no earlier one has bit 0 set.
C6_SegmentCountAndLastFlag ==
    (entry = "download" /\ pc = "done" /\ ret) =>
        LET L == Len(buffer)
            n == Len(sent) - 1
        IN  /\ sent[1] = InitiateFrame(8016, 1, buffer)
            /\ n = CeilDiv7(L)
            /\ \A k \in 1..n : IsSegmentFrame(sent[k + 1])
            /\ \A k \in 1..(n - 1) : sent[k + 1].data[1] % 2 = 0
            /\ n > 0 => /\ sent[n + 1].data[1] % 2 = 1
                        /\ (sent[n + 1].data[1] \div 2) % 8 = (7 - (L % 7)) % 7

\* a completed download of a payload that is a multiple of 7 bytes long
C6_Reached ==
    /\ entry = "download"
    /\ pc = "done"
    /\ ret
    /\ Len(buffer) = 14
    /\ Len(sent) = 3

\* C7: the k-th segment frame a download has sent (k from 0) is addressed to
\* 0x600 + node, carries the k-th chunk of at most 7 payload bytes padded with
\* zeros to 7, and has the command byte 16 * (k mod 2) + last + 2 * (7 - len),
\* last being 1 for the final chunk only; a completed download of 10 bytes has
\* sent the command bytes 0x00 and 0x19.
C7_ToggleLaw ==
    entry = "download" =>
        /\ \A k \in 0..(Len(sent) - 2) :
              LET f == sent[k + 2]
                  L == Len(buffer)
                  len == ChunkLen(L, k)
                  last == IF 7 * k + len >= L THEN 1 ELSE 0
              IN  /\ f.id = 1536 + node_id
                  /\ f.data[1] = 16 * (k % 2) + last + 2 * (7 - len)
                  /\ \A j \in 1..7 :
                        f.data[j + 1] = IF j <= len THEN buffer[7 * k + j] ELSE 0
        /\ (pc = "done" /\ ret /\ Len(buffer) = 10) =>
              /\ Len(sent) = 3
              /\ <<sent[2].data[1], sent[3].data[1]>> = <<0, 25>>
              /\ node_id = 1 => sent[2].id = 1537 /\ sent[3].id = 1537

\* the completed download of 10 bytes to node 1
C7_Reached ==
    /\ entry = "download"
    /\ pc = "done"
    /\ ret
    /\ node_id = 1
    /\ Len(buffer) = 10
    /\ sent[3].data[1] = 25

\* a response that must fail the segment sent with toggle tgl: an abort, a
\* command byte whose top three bits are not 001, or the other toggle bit
BadSegmentResponse(resp, tgl) ==
    \/ resp.data[1] = 128
    \/ resp.data[1] \div 32 # 1
    \/ (resp.data[1] \div 16) % 2 # tgl

\* C8: the step of a download that takes such a response to its segment ends
\* the download with failure, leaves the offset, the toggle and the count of
\* accepted segments as they were and sends nothing; nothing is sent after it.
C8_BadSegmentResponseFails ==
    [][/\ (entry = "download" /\ pc = "dl_seg_wait" /\ pc' # "dl_seg_wait"
            /\ response' # NoFrame /\ BadSegmentResponse(response', toggle)) =>
          /\ pc' = "done"
          /\ ret' = FALSE
          /\ offset' = offset
          /\ toggle' = toggle
          /\ segment_num' = segment_num
          /\ sent' = sent
       /\ (entry = "download" /\ pc = "done") => (pc' = "done" /\ sent' = sent)]_vars

\* a download that failed on the acknowledgment of its second segment, which
\* carried the toggle bit of the first
C8_Reached ==
    /\ entry = "download"
    /\ pc = "done"
    /\ ~ret
    /\ segment_num = 1
    /\ response # NoFrame
    /\ response.data[1] = 32
    /\ toggle = 1
    /\ offset = 7

\* C9: a _change_program(target) whose first read of the mode returned the
\* target has returned success, having sent the read frame and nothing else.
C9_NoWriteWhenAlreadyInMode ==
    (entry = "change" /\ pc = "done" /\ attempt = 1
       /\ current_program = target_program) =>
        /\ ret
        /\ sent = <<ReadModeFrame>>
        /\ \A i \in DOMAIN sent : sent[i].data[1] # 47

\* a _change_program(0) of a device already in bootloader mode
C9_Reached ==
    /\ entry = "change"
    /\ pc = "done"
    /\ target_program = 0
    /\ current_program = 0
    /\ attempt = 1
    /\ ret

\* C10: _set_program has returned true when bus.recv gave no frame, true for
\* the write confirmation 0x60, true for an abort whose code bytes are those of
\* 0x05040000 (little-endian 00 00 04 05), and false for an abort with any
\* other code.
C10_WriteModeVerdict ==
    (entry = "set" /\ pc = "done") =>
        /\ response = NoFrame => ret
        /\ (response # NoFrame /\ response.id = 1408 + node_id) =>
              /\ response.data[1] = 96 => ret
              /\ response.data[1] = 128 =>
                    (ret <=> SubSeq(response.data, 5, 8) = <<0, 0, 4, 5>>)

\* a _set_program answered with the abort "SDO timeout"
C10_Reached ==
    /\ entry = "set"
    /\ pc = "done"
    /\ response # NoFrame
    /\ response.data[1] = 128
    /\ SubSeq(response.data, 5, 8) = <<0, 0, 4, 5>>
    /\ ret

\* C11: the step of _get_program that takes the response returns byte 4 of a
\* 1-byte upload response (0x4F) of the device and None for an abort and for
\* no frame; with None as the mode read, program() goes on to
\* _change_program(0) and reports EnterBootloader Busy, and _change_program
\* goes on to _set_program(target) and back to the top of its loop.
C11_ReadModeNoneIsNotFatal ==
    [][/\ (pc = "gp_recv" /\ pc' # "gp_recv") =>
             /\ response' = NoFrame => current_program' = -1
             /\ (response' # NoFrame /\ response'.id = 1408 + node_id) =>
                   /\ response'.data[1] = 79 => current_program' = response'.data[5]
                   /\ response'.data[1] = 128 => current_program' = -1
       /\ (pc = "modecheck" /\ current_program = -1 /\ pc' # pc) =>
             /\ pc' = "cp_loop"
             /\ target_program' = 0
             /\ attempt' = 0
             /\ notes' = Append(notes, Note("bootloader", "busy"))
             /\ result' = "running"
       /\ (pc = "cp_read" /\ current_program = -1 /\ pc' # pc) =>
             /\ pc' = "sp_drain"
             /\ Head(stack') = "cp_loop"
             /\ target_program' = target_program
             /\ result' = "running"
       /\ (pc = "sp_drain" /\ rxq = <<>> /\ pc' # pc) =>
             sent' = Append(sent, WriteModeFrame(target_program))]_vars

\* program() has sent a write of mode Bootloader after the mode check and the
\* first read of _change_program both returned None
C11_Reached ==
    /\ entry = "program"
    /\ current_program = -1
    /\ sent = <<ReadModeFrame, ReadModeFrame, WriteModeFrame(0)>>
    /\ fault
    /\ pending = <<WriteModeFrame(0)>>
    /\ HasNote("bootloader", "busy")
    /\ devMode = 1

\* the lines of a text, each with its newline
RECURSIVE LinesOf(_)
LinesOf(text) == IF text = <<>> THEN <<>> ELSE <<FirstLine(text)>> \o LinesOf(RestLines(text))

\* the bytes of a record line: the pairs of hexadecimal digits after the colon
RECURSIVE PairsOf(_)
PairsOf(digits) ==
    IF Len(digits) < 2 THEN <<>>
    ELSE <<HexInt(SubSeq(digits, 1, 2))>> \o PairsOf(SubSeq(digits, 3, Len(digits)))

RecordBytes(line) == PairsOf(Tail(Strip(line)))

RecordTypes(text) == {RecordBytes(LinesOf(text)[k])[4] : k \in 1..Len(LinesOf(text))}

GapShapeOf(text) == CHOOSE g \in GapShapes : GapText(g) = text

\* C12: parsing the text that _bin_to_intel_hex writes for a binary whose length
\* is a multiple of 16 gives the binary back, for every base address; parsing
\* records that leave a gap between two data records gives the bytes of the
\* records with 0xFF in the gap
C12_RoundTrip ==
    /\ (entry = "codec" /\ pc = "done" /\ Len(file) % BYTES_PER_LINE = 0) =>
          parser.data = file
    /\ (entry = "parse" /\ pc = "done") =>
          LET g == GapShapeOf(file)
          IN  parser.data = Payload(g.lead) \o [k \in 1..g.gap |-> 255] \o Payload(g.trail)

\* a 32-byte binary that crosses a 64 KB boundary has been written and parsed
C12_Reached ==
    /\ entry = "codec"
    /\ pc = "done"
    /\ Len(file) = 2 * BYTES_PER_LINE
    /\ hex_base_address = APP_BASE_ADDRESS + 32752
    /\ Len(parser.data) = 32
    /\ parser.extended_addr = 2050 * 65536

\* C13: in every line that _bin_to_intel_hex writes the last byte is the two's
\* complement modulo 256 of the sum of the bytes before it, so the bytes of the
\* line sum to 0 modulo 256
C13_ChecksumLaw ==
    (entry = "codec" /\ pc # "encode") =>
        \A k \in 1..Len(LinesOf(buffer)) :
            LET line == LinesOf(buffer)[k]
                bytes == RecordBytes(line)
                body == SubSeq(bytes, 1, Len(bytes) - 1)
            IN  /\ line[1] = ASCII_COLON
                /\ Len(line) = 2 * Len(bytes) + 2
                /\ Len(bytes) = bytes[1] + 5
                /\ \A j \in 1..Len(bytes) : bytes[j] \in 0..255
                /\ bytes[Len(bytes)] = (256 - (SumSeq(body) % 256)) % 256
                /\ SumSeq(bytes) % 256 = 0

\* a text with records of all four types has been written
C13_Reached ==
    /\ entry = "codec"
    /\ pc = "parse_line"
    /\ parser.text = buffer
    /\ RecordTypes(buffer) = {0, 1, 4, 5}
    /\ Len(LinesOf(buffer)) = 7

\* C14: a download that takes, as the response to its initiate frame, a frame
\* of the device whose command byte is neither the abort 0x80 nor the
\* acknowledgment 0x60 goes on waiting; an abort ends it with failure, and
\* without a response it ends with failure only when the 5 s have elapsed.
C14_UnexpectedInitiateResponseKeepsWaiting ==
    [][(entry = "download" /\ pc = "dl_init_wait" /\ response' # response
          /\ response' # NoFrame) =>
          /\ response'.data[1] = 128 => (pc' = "done" /\ ret' = FALSE)
          /\ response'.data[1] \notin {128, 96} => (pc' = "dl_init_wait" /\ sent' = sent)
          /\ response'.data[1] = 96 => pc' = "dl_loop"]_vars

\* C15: a step of _change_program from the top of its loop either starts the
\* read of the mode or returns false; it returns false without sending a frame
\* when the token is set, and when the deadline has passed; _change_program
\* returns true only from a read that gave the target mode.
C15_ChangeModeTimeoutAndCancel ==
    [][/\ (entry = "change" /\ pc = "cp_loop" /\ pc' # pc) =>
             /\ cancelled => pc' = "done"
             /\ pc' = "done" => (ret' = FALSE /\ sent' = sent /\ pending' = pending)
             /\ pc' # "done" => (pc' = "gp_drain" /\ ~cancelled)
       /\ (entry = "change" /\ pc # "done" /\ pc' = "done" /\ ret') =>
             (pc = "cp_read" /\ current_program = target_program)]_vars

\* a _change_program cancelled at the top of its second iteration, after one
\* read and one write of the mode
C15_Reached ==
    /\ entry = "change"
    /\ pc = "done"
    /\ cancelled
    /\ ~ret
    /\ attempt = 2
    /\ sent = <<ReadModeFrame, WriteModeFrame(target_program)>>

\* C16: when program() decides about EnterBootloader it has sent one read of
\* the mode and nothing else; if that read gave Bootloader the decision reports
\* (bootloader, success), sends nothing and goes to the download, and the frame
\* sent after the read is the download's initiate frame.
C16_ModeReadOnceAndSwitchSkipped ==
    /\ [](/\ (entry = "program" /\ pc = "modecheck") => sent = <<ReadModeFrame>>
          /\ (entry = "program" /\ Len(notes) >= 3
                /\ notes[3] = Note("bootloader", "success") /\ Len(sent) >= 2) =>
                sent[2] = InitiateFrame(FIRMWARE_INDEX, FIRMWARE_SUBINDEX, buffer))
    /\ [][(entry = "program" /\ pc = "modecheck" /\ pc' # pc /\ current_program = 0) =>
             /\ notes' = notes \o <<Note("bootloader", "success"), Note("flashing", "busy")>>
             /\ pc' = "dl_drain"
             /\ sent' = sent
             /\ in_bootloader']_vars

\* the device was in bootloader mode at the mode check, and the initiate frame
\* of the download has followed the read
C16_Reached ==
    /\ entry = "program"
    /\ pc = "dl_init_wait"
    /\ current_program = 0
    /\ notes[3] = Note("bootloader", "success")
    /\ sent = <<ReadModeFrame, InitiateFrame(FIRMWARE_INDEX, FIRMWARE_SUBINDEX, buffer)>>

C18_NoStaleResponseAccepted ==
    [][(response' # response /\ response' # NoFrame /\ response'.id = 1408 + node_id) =>
          response'.re = Len(sent)]_vars

\* C19: the frame an exchange takes as its response is a frame of the device's
\* SDO response id 0x580 + node: a heartbeat or a frame of another node that
\* arrives first is passed over and decides nothing.
C19_HeartbeatNeverDecides ==
    response # NoFrame => response.id = 1408 + node_id

\* C20: throughout a download the offset lies between 0 and the length of the
\* payload and equals min(7 * accepted segments, length), and the toggle bit is
\* the number of accepted segments modulo 2 (0 before the first segment); the
\* offset never decreases, and the offset and the toggle change only in a step
\* that takes a segment acknowledgment with the toggle bit of the segment sent.
C20_OffsetAndToggleInvariant ==
    /\ [](entry = "download" =>
            /\ 0 <= offset /\ offset <= Len(buffer)
            /\ toggle = segment_num % 2
            /\ offset = IF 7 * segment_num < Len(buffer) THEN 7 * segment_num
                        ELSE Len(buffer)
            /\ Len(sent) <= 1 => (toggle = 0 /\ offset = 0 /\ segment_num = 0))
    /\ [][entry = "download" =>
            /\ offset' >= offset
            /\ (offset' # offset \/ toggle' # toggle \/ segment_num' # segment_num) =>
                  /\ pc = "dl_seg_wait"
                  /\ response' # NoFrame
                  /\ response'.id = 1408 + node_id
                  /\ response'.data[1] \div 32 = 1
                  /\ (response'.data[1] \div 16) % 2 = toggle
                  /\ toggle' = 1 - toggle
                  /\ segment_num' = segment_num + 1
                  /\ offset' > offset]_vars

\* a completed download of 10 bytes: two accepted segments, the second of 3
\* bytes
C20_Reached ==
    /\ entry = "download"
    /\ pc = "done"
    /\ ret
    /\ Len(buffer) = 10
    /\ segment_num = 2
    /\ offset = 10
    /\ toggle = 0

\* C21: a download sends its initiate frame once, as its first frame; it sends
\* a segment only from the top of its loop, when every segment sent before has
\* been accepted; the step that takes a timeout, an abort or a violating
\* response sends nothing, and nothing is sent after the download has ended.
C21_DownloadNeverRetries ==
    /\ [](entry = "download" =>
            /\ Len(sent) <= segment_num + 2
            /\ \A k \in 2..Len(sent) : IsSegmentFrame(sent[k])
            /\ pc = "dl_seg_wait" => Len(sent) = segment_num + 2
            /\ (pc = "done" /\ sent # <<>>) =>
                  Len(sent) \in {segment_num + 1, segment_num + 2})
    /\ [][entry = "download" =>
            /\ sent' # sent =>
                  /\ Len(sent') = Len(sent) + 1
                  /\ SubSeq(sent', 1, Len(sent)) = sent
                  /\ IF sent = <<>>
                     THEN sent'[1] = InitiateFrame(8016, 1, buffer)
                     ELSE /\ pc = "dl_loop"
                          /\ Len(sent) = segment_num + 1
                          /\ sent'[Len(sent')] = SegmentFrame(buffer, 7 * segment_num, toggle)
            /\ (pc # "done" /\ pc' = "done") => sent' = sent
            /\ pc = "done" => (pc' = "done" /\ sent' = sent)]_vars

\* a download that ended on the timeout of its second segment
C21_Reached ==
    /\ entry = "download"
    /\ pc = "done"
    /\ ~ret
    /\ why = "seg_timeout"
    /\ segment_num = 1
    /\ Len(sent) = 3

\* C22: _change_program returns true exactly when it returns from a read that
\* gave the target mode; a read that gave anything else (None included) is
\* followed by one write of the target mode, so that at the top of the loop as
\* many writes as reads have been sent; whatever _set_program returned, the
\* loop goes on to the next read or ends on the deadline or the token.
C22_ChangeModeSuccessIffTargetRead ==
    /\ [](entry = "change" =>
            /\ Times(ReadModeFrame) + Times(WriteModeFrame(target_program)) = Len(sent)
            /\ pc = "cp_loop" =>
                  /\ Times(ReadModeFrame) = attempt
                  /\ Times(WriteModeFrame(target_program)) = attempt
            /\ pc = "done" =>
                  /\ Times(ReadModeFrame) \in {attempt - 1, attempt}
                  /\ Times(WriteModeFrame(target_program))
                        = IF ret THEN Times(ReadModeFrame) - 1 ELSE Times(ReadModeFrame)
                  /\ ret => current_program = target_program)
    /\ [][entry = "change" =>
            /\ (pc # "done" /\ pc' = "done") =>
                  (ret' <=> (pc = "cp_read" /\ current_program = target_program))
            /\ (pc = "cp_read" /\ pc' # pc /\ current_program # target_program) =>
                  (pc' = "sp_drain" /\ Head(stack') = "cp_loop")
            /\ (pc = "sp_drain" /\ rxq = <<>> /\ pc' # pc) =>
                  sent' = Append(sent, WriteModeFrame(target_program))
            /\ (pc = "sp_recv" /\ pc' # pc) => pc' = "cp_loop"
            /\ (pc = "cp_loop" /\ pc' # pc /\ ~cancelled) =>
                  \/ pc' = "gp_drain" /\ sent' = sent
                  \/ pc' = "done" /\ attempt >= 1 /\ ~ret']_vars

\* the second iteration has begun although _set_program returned false in the
\* first
C22_Reached ==
    /\ entry = "change"
    /\ pc = "gp_drain"
    /\ attempt = 2
    /\ ~ret
    /\ ~cancelled
    /\ sent = <<ReadModeFrame, WriteModeFrame(target_program)>>

\* C23: _verify_firmware returns true as soon as a _change_program(1) has
\* returned true, calls it a second time only after the first returned false,
\* and never a third time: after the second failure it reads the mode and
\* returns false whatever that read gave; program() then reports (verifying,
\* failed) and returns failure.
C23_VerifyRetriesOnce ==
    /\ [](entry = "program" =>
            /\ vattempt \in {0, 1}
            /\ pc = "vf_diag" => (vattempt = 1 /\ ~ret)
            /\ HasNote("verifying", "failed") =>
                  (exc # "none" /\ (pc = "done" => result = "failure")))
    /\ [][entry = "program" =>
            /\ (pc = "vf_after" /\ pc' # pc) =>
                  /\ ret => (pc' = "after_verify" /\ ret')
                  /\ (~ret /\ vattempt = 0) =>
                        /\ pc' = "cp_loop" /\ target_program' = 1 /\ attempt' = 0
                        /\ vattempt' = 1
                        /\ Head(stack') = "vf_after"
                  /\ (~ret /\ vattempt = 1) =>
                        (pc' = "gp_drain" /\ Head(stack') = "vf_diag")
            /\ vattempt' # vattempt =>
                  (pc \in {"vf_after", "after_flash"} /\ pc' = "cp_loop")
            /\ (pc = "vf_diag" /\ pc' # pc) => (pc' = "after_verify" /\ ~ret')
            /\ (pc = "after_verify" /\ pc' # pc) =>
                  notes'[Len(notes) + 1]
                     = Note("verifying", IF ret THEN "success" ELSE "failed")]_vars

\* both switches to application mode failed and the diagnostic read found the
\* device in application mode
C23_Reached ==
    /\ entry = "program"
    /\ pc = "after_verify"
    /\ vattempt = 1
    /\ current_program = 1
    /\ ~ret

\* the records of a text, each as its sequence of bytes
Records(text) == [k \in 1..Len(LinesOf(text)) |-> RecordBytes(LinesOf(text)[k])]

\* the records recs, which follow off bytes of the binary B already placed and
\* the ELA value upper (None: none yet), place the rest of B from address A on:
\* an ELA record stands before a chunk whose upper 16 address bits differ from
\* upper, and nowhere else; each data record carries the next 16 bytes (fewer
\* at the end) at the lower 16 bits of A + off; no data follows another record
RECURSIVE WellPlaced(_, _, _, _, _)
WellPlaced(recs, B, A, off, upper) ==
    IF recs = <<>> THEN off = Len(B)
    ELSE LET r == Head(recs)
             chunk_upper == ((A + off) \div 65536) % 65536
         IN  IF r[4] = 4
             THEN /\ off < Len(B)
                  /\ r[5] * 256 + r[6] = chunk_upper
                  /\ chunk_upper # upper
                  /\ Len(recs) >= 2 /\ recs[2][4] = 0
                  /\ WellPlaced(Tail(recs), B, A, off, chunk_upper)
             ELSE IF r[4] = 0
             THEN LET n == IF Len(B) - off < 16 THEN Len(B) - off ELSE 16
                  IN  /\ n >= 1
                      /\ upper = chunk_upper
                      /\ r[1] = n
                      /\ upper * 65536 + r[2] * 256 + r[3] = A + off
                      /\ SubSeq(r, 5, 4 + n) = SubSeq(B, off + 1, off + n)
                      /\ WellPlaced(Tail(recs), B, A, off + n, upper)
             ELSE /\ off = Len(B)
                  /\ \A k \in 1..Len(recs) : recs[k][4] \in {1, 5}

TypeCount(recs, t) == Cardinality({k \in 1..Len(recs) : recs[k][4] = t})

\* C24: in the text written for a binary B and a base address A, an ELA record
\* stands before a chunk exactly when the upper 16 bits of the chunk's address
\* differ from those of the ELA record before (always before the first chunk);
\* the load address of every data record, upper << 16 | address, is A plus the
\* offset of its chunk; the data records follow in the order of the offsets
\* with 16 bytes each, the last with the remainder.
C24_ElaAndDataRecords ==
    (entry = "codec" /\ pc # "encode") =>
        /\ WellPlaced(Records(buffer), file, hex_base_address, 0, None)
        /\ TypeCount(Records(buffer), 0) = (Len(file) + 15) \div 16
        /\ TypeCount(Records(buffer), 4)
              = IF file = <<>> THEN 0
                ELSE 1 + (hex_base_address + Len(file) - 1) \div 65536
                       - hex_base_address \div 65536

\* a binary of 33 bytes written from 16 bytes below a 64 KB boundary: two ELA
\* records and three data records, the last of one byte
C24_Reached ==
    /\ entry = "codec"
    /\ pc = "done"
    /\ Len(file) = 33
    /\ hex_base_address = APP_BASE_ADDRESS + 32752
    /\ TypeCount(Records(buffer), 4) = 2
    /\ TypeCount(Records(buffer), 0) = 3
    /\ Records(buffer)[5][1] = 1

\* C25: the text written for a binary has one Start Linear Address record when
\* the binary has 8 bytes or more and none otherwise; the record follows every
\* data record and carries, high byte first, the 32-bit little-endian word at
\* offset 4 of the binary; the text has one End Of File record, and it is the
\* last record, for the empty binary too.
C25_StartAddressAndEndOfFile ==
    (entry = "codec" /\ pc # "encode") =>
        LET recs == Records(buffer)
            n == Len(recs)
        IN  /\ n >= 1
            /\ recs[n] = <<0, 0, 0, 1, 255>>
            /\ TypeCount(recs, 1) = 1
            /\ TypeCount(recs, 5) = IF Len(file) >= 8 THEN 1 ELSE 0
            /\ Len(file) >= 8 =>
                  /\ recs[n - 1][4] = 5
                  /\ SubSeq(recs[n - 1], 1, 3) = <<4, 0, 0>>
                  /\ SubSeq(recs[n - 1], 5, 8) = <<file[8], file[7], file[6], file[5]>>
                  /\ \A k \in 1..(n - 2) : recs[k][4] \in {0, 4}
            /\ file = <<>> => n = 1

\* a binary of exactly 8 bytes has been written
C25_Reached ==
    /\ entry = "codec"
    /\ pc = "done"
    /\ Len(file) = 8
    /\ TypeCount(Records(buffer), 5) = 1
    /\ Len(Records(buffer)) = 4

\* the data records among recs, each with its load address: the value of the
\* last ELA record before it (upper at the start) << 16, plus its address
RECURSIVE Loaded(_, _)
Loaded(recs, upper) ==
    IF recs = <<>> THEN <<>>
    ELSE LET r == Head(recs)
         IN  IF r[4] = 4 THEN Loaded(Tail(recs), r[5] * 256 + r[6])
             ELSE IF r[4] = 0
             THEN <<[load |-> upper * 65536 + r[2] * 256 + r[3],
                     bytes |-> SubSeq(r, 5, 4 + r[1])]>> \o Loaded(Tail(recs), upper)
             ELSE Loaded(Tail(recs), upper)

\* C26: after the parse of well-formed records in any order of addresses, the
\* first data record having set the base, every byte of every data record is
\* in the output at the index load address - base, also for a record that lies
\* below the base, and every other byte of the output is 0xFF.
C26_ParsePlacesEveryRecord ==
    (entry = "parse_order" /\ pc = "done") =>
        LET recs == Loaded(Records(file), 0)
            base == recs[1].load
            at(k, j) == recs[k].load + j - 1 - base
        IN  /\ \A k \in 1..Len(recs) : \A j \in 1..Len(recs[k].bytes) :
                  /\ at(k, j) \in 0..(Len(parser.data) - 1)
                  /\ parser.data[at(k, j) + 1] = recs[k].bytes[j]
            /\ \A i \in 0..(Len(parser.data) - 1) :
                  \/ \E k \in 1..Len(recs) : \E j \in 1..Len(recs[k].bytes) : at(k, j) = i
                  \/ parser.data[i + 1] = 255

\* the locals of parse_intel_hex after the whole of a text, from the locals st
RECURSIVE ParseText(_, _)
ParseText(text, st) ==
    IF text = <<>> THEN st
    ELSE LET line == Strip(FirstLine(text))
         IN  ParseText(RestLines(text),
                       IF line = <<>> \/ line[1] # 58 THEN st ELSE ParseRecord(line, st))

\* the text of MalformedText without its malformed line
WellFormedText ==
    ElaLine(2049) \o DataLine(4096, <<1, 2>>) \o DataLine(4098, <<3, 4>>) \o EofLine

\* C27: the parse of a text with a malformed line returns the image, and ends
\* with the base address and the extended address, that the parse of the text
\* without that line gives.
C27_MalformedLineIsSkipped ==
    (entry = "parse_malformed" /\ pc = "done") =>
        /\ parser.data = ParseText(WellFormedText, NoParser).data
        /\ parser.data = <<1, 2, 3, 4>>
        /\ parser.base_address = ParseText(WellFormedText, NoParser).base_address
        /\ parser.extended_addr = ParseText(WellFormedText, NoParser).extended_addr

\* the place of a phase in the order ReadFile, EnterBootloader, Flash, Verify,
\* ReturnToApplication
PhaseIndex(progress) ==
    CASE progress = "file" -> 1
      [] progress = "bootloader" -> 2
      [] progress = "flashing" -> 3
      [] progress = "verifying" -> 4
      [] progress = "application" -> 5

\* C28: in the sequence of notifications every terminal state of a phase comes
\* directly after the Busy of that phase, and every Busy is the first
\* notification or comes directly after the terminal state of an earlier phase.
C28_NotificationsWellFormed ==
    entry = "program" =>
        \A i \in DOMAIN notes :
            IF notes[i][2] = "busy"
            THEN \/ i = 1
                 \/ /\ notes[i - 1][2] # "busy"
                    /\ PhaseIndex(notes[i - 1][1]) < PhaseIndex(notes[i][1])
            ELSE /\ i > 1
                 /\ notes[i - 1] = Note(notes[i][1], "busy")

\* C29: program() sets in_bootloader only when a read of the mode has just
\* given Bootloader, at the mode check or as the last read of a successful
\* _change_program(0); it sends the initiate frame of the download only with
\* in_bootloader set and EnterBootloader not reported Failed, and after that
\* report it sends no initiate frame.
C29_DownloadGatedByBootloaderRead ==
    /\ [](entry = "program" =>
            /\ (\E i \in DOMAIN sent : sent[i].data[1] = 33) =>
                  /\ in_bootloader
                  /\ HasNote("bootloader", "success")
                  /\ sent[1] = ReadModeFrame
            /\ HasNote("bootloader", "failed") =>
                  /\ ~in_bootloader
                  /\ \A i \in DOMAIN sent : sent[i].data[1] # 33
                  /\ pc = "done" /\ result = "failure")
    /\ [][entry = "program" =>
            /\ (in_bootloader' /\ ~in_bootloader) =>
                  /\ current_program = 0
                  /\ \/ pc = "modecheck"
                     \/ pc = "after_enter" /\ ret /\ target_program = 0
            /\ (sent' # sent /\ sent'[Len(sent')].data[1] = 33) =>
                  /\ in_bootloader
                  /\ ~HasNote("bootloader", "failed")
                  /\ sent'[Len(sent')] = InitiateFrame(8016, 1, buffer)]_vars

\* the initiate frame has been sent after the switch to bootloader mode: the
\* third read of the mode gave Bootloader
C29_Reached ==
    /\ entry = "program"
    /\ pc = "dl_init_wait"
    /\ in_bootloader
    /\ current_program = 0
    /\ sent = <<ReadModeFrame, ReadModeFrame, WriteModeFrame(0), ReadModeFrame,
               InitiateFrame(8016, 1, buffer)>>

\* C30: the download returns, whatever the device does and whatever arrives on
\* the bus.
C30_DownloadReturns ==
    <>(pc = "done")

-----------------------------------------------------------------------------
(* C31: cancellation is honoured at the boundary before Flash: when the    *)
(* token is already set as the Flash phase starts, program() ends in       *)
(* failure and neither the download initiate frame nor a segment frame is  *)
(* sent, i.e. no step of program() sends a download frame with the token   *)
(* set, and a run cancelled before Flash finishes as a failure.            *)
IsInitiateFrame(m) == m.data[1] = 33

DownloadFrameSent ==
    /\ sent' # sent
    /\ Len(sent') = Len(sent) + 1
    /\ \/ IsInitiateFrame(sent'[Len(sent')])
       \/ IsSegmentFrame(sent'[Len(sent')])

C31_NoDownloadFrameOnceCancelled ==
    [][(entry = "program" /\ DownloadFrameSent) => ~cancelled]_vars

-----------------------------------------------------------------------------
\* C32: program() returns success exactly when the Flash phase and the Verify
\* phase both ended in Success; the outcome of ReturnToApplication does not
\* change the result, and a failed ReadFile or EnterBootloader yields failure.
C32_SuccessIffFlashedAndVerified ==
    (entry = "program" /\ pc = "done") =>
        /\ result = "success" <=>
               (HasNote("flashing", "success") /\ HasNote("verifying", "success"))
        /\ (HasNote("file", "failed") \/ HasNote("bootloader", "failed")) =>
               result = "failure"

C32_Reached ==
    /\ entry = "program"
    /\ pc = "done"
    /\ result = "success"
    /\ HasNote("flashing", "success")
    /\ HasNote("verifying", "success")
    /\ HasNote("application", "failed")

-----------------------------------------------------------------------------
\* the states that State (45-50) has and program() reports
ReportedStates == {"busy", "success", "failed"}

\* the token has stopped a call of the run: the download at the top of its
\* segment loop, or a mode change at the top of its polling loop
TokenStopped == why \in {"cancelled", "mode_cancelled"}

\* the places where program() continues after the call of a phase
AfterPhase == {"after_enter", "after_flash", "after_verify", "after_return"}

\* the call of a phase stopped by the token returns false, so that the phase
\* is reported Failed, and Failed is the last notification of the run
StoppedPhaseReportedFailed ==
    /\ (TokenStopped /\ pc \in AfterPhase) => ~ret
    /\ (TokenStopped /\ pc = "done") =>
           (notes # <<>> /\ notes[Len(notes)][2] = "failed")

-----------------------------------------------------------------------------
\* n of a segment frame: bits 1-3 of its command byte, the number of bytes of
\* the frame that carry no data
UnusedBytes(f) == (f.data[1] \div 2) % 8

\* the first 7-n data bytes of a segment frame, and the bytes after them
CarriedBytes(f) == SubSeq(f.data, 2, 8 - UnusedBytes(f))

PaddingBytes(f) == SubSeq(f.data, 9 - UnusedBytes(f), 8)

\* the concatenation, in sending order, of what the segment frames carry
RECURSIVE Carried(_)
Carried(frames) ==
    IF frames = <<>> THEN <<>>
    ELSE CarriedBytes(Head(frames)) \o Carried(Tail(frames))

\* C34: when the download returns success, the initiate frame carried index
\* low, index high and subindex in bytes 1-3 and the payload length as 32 bits
\* little-endian in bytes 4-7, the first 7-n data bytes of the segment frames,
\* concatenated in sending order, are the payload, and the padding of the last
\* segment is zero.
C34_SuccessfulDownloadCarriesPayload ==
    (entry = "download" /\ pc = "done" /\ ret) =>
        /\ sent # <<>>
        /\ sent[1].id = 1536 + node_id
        /\ sent[1].data[1] = 33
        /\ sent[1].data[2] = 8016 % 256
        /\ sent[1].data[3] = 8016 \div 256
        /\ sent[1].data[4] = 1
        /\ sent[1].data[5] + 256 * sent[1].data[6] + 65536 * sent[1].data[7]
             + 16777216 * sent[1].data[8] = Len(buffer)
        /\ \A k \in 5..8 : sent[1].data[k] \in 0..255
        /\ ControlSent = <<sent[1]>>
        /\ Carried(SegmentsSent) = buffer
        /\ \A i \in DOMAIN SegmentsSent :
               /\ Len(SegmentsSent[i].data) = 8
               /\ \A k \in DOMAIN PaddingBytes(SegmentsSent[i]) :
                      PaddingBytes(SegmentsSent[i])[k] = 0

\* a successful download of ten bytes: a full segment and a padded last one
C34_Reached ==
    /\ entry = "download"
    /\ pc = "done"
    /\ ret
    /\ Len(buffer) = 10
    /\ Len(SegmentsSent) = 2
    /\ UnusedBytes(SegmentsSent[2]) = 4

====
